---- MODULE Spec2Model ----
(***************************************************************************)
(* A model of the basketball-reference collectors: the roster, URL, stats, *)
(* schedule and box-score scripts working on the tables of nba_players.db. *)
(* Texts are TLA+ strings, read with Len and SubSeq; a missing value (a    *)
(* Python None, an SQL NULL) is the text NULL, which no page holds.  A     *)
(* REAL is held as an integer number of thousandths.                       *)
(***************************************************************************)
EXTENDS Integers, Sequences, FiniteSets, TLC

VARIABLES players, gamelogs, box_scores, adv_box_scores, sqlite_sequence,
          driver, work, idx, status, fetched, replay, outcome, assigned,
          family, recording, seeded, wire, csv

vars == <<players, gamelogs, box_scores, adv_box_scores, sqlite_sequence,
          driver, work, idx, status, fetched, replay, outcome, assigned,
          family, recording, seeded, wire, csv>>

\* What a behaviour fixes at its start.
setting == <<family, recording, seeded>>

tables == <<players, gamelogs, box_scores, adv_box_scores>>

\* ------------------------------------------------------------- bounds
\* Team pages one roster run visits (the code lists 30 abbreviations).
NumTeams == 2
\* Schedule pages one schedule run visits (the code visits 22 x 7).
NumMonths == 2
\* Player ids the store hands out past those it started with: the site serves
\* no roster that needs more.
MaxPlayers == 3
\* The last counter value construct_url tries.
MaxSuffix == 99

\* ------------------------------------------------------------- values
\* A missing value (Python None, SQL NULL) among texts: no page text equals it.
NULL == "<NULL>"

\* The result of a Python call: a value, or the exception it raised.
Ok(v) == [ok |-> TRUE, val |-> v]
Raised(exc) == [ok |-> FALSE, exc |-> exc]

\* Python truthiness of a text or None: "" and None are falsy.
Truthy(v) == v /= NULL /\ v /= ""

Char(s, i) == SubSeq(s, i, i)

Digits == <<"0", "1", "2", "3", "4", "5", "6", "7", "8", "9">>
IsDigit(c) == \E d \in 1..10 : Digits[d] = c
DigitVal(c) == (CHOOSE d \in 1..10 : Digits[d] = c) - 1

AllDigits(s) == Len(s) > 0 /\ \A i \in 1..Len(s) : IsDigit(Char(s, i))

RECURSIVE DigitsVal(_)
DigitsVal(s) ==
    IF Len(s) = 0 THEN 0
    ELSE 10 * DigitsVal(SubSeq(s, 1, Len(s) - 1)) + DigitVal(Char(s, Len(s)))

\* int(text): an optional sign and decimal digits, ValueError otherwise.
ParseInt(s) ==
    IF Len(s) > 1 /\ Char(s, 1) \in {"+", "-"} /\ AllDigits(SubSeq(s, 2, Len(s)))
    THEN Ok((IF Char(s, 1) = "-" THEN -1 ELSE 1) * DigitsVal(SubSeq(s, 2, Len(s))))
    ELSE IF AllDigits(s) THEN Ok(DigitsVal(s))
    ELSE Raised("ValueError")

\* A REAL is held in thousandths.
FloatScale == 10 * 10 * 10

RECURSIVE Pow10(_)
Pow10(n) == IF n = 0 THEN 1 ELSE 10 * Pow10(n - 1)

DotAt(s) == IF \E i \in 1..Len(s) : Char(s, i) = "."
            THEN CHOOSE i \in 1..Len(s) : Char(s, i) = "." /\ \A j \in 1..(i - 1) : Char(s, j) /= "."
            ELSE 0

\* float of an unsigned text: digits, or digits "." digits with one side
\* possibly empty, of at most three decimals.
UFloat(s) ==
    LET d == DotAt(s)
        ip == IF d = 0 THEN s ELSE SubSeq(s, 1, d - 1)
        fp == IF d = 0 THEN "" ELSE SubSeq(s, d + 1, Len(s))
    IN  IF /\ Len(ip) + Len(fp) > 0
           /\ \A i \in 1..Len(ip) : IsDigit(Char(ip, i))
           /\ \A i \in 1..Len(fp) : IsDigit(Char(fp, i))
           /\ Len(fp) <= 3
        THEN Ok(DigitsVal(ip) * FloatScale + DigitsVal(fp) * Pow10(3 - Len(fp)))
        ELSE Raised("ValueError")

\* float(text)
ParseFloat(s) ==
    IF Len(s) > 1 /\ Char(s, 1) \in {"+", "-"}
    THEN LET u == UFloat(SubSeq(s, 2, Len(s)))
         IN  IF u.ok THEN Ok((IF Char(s, 1) = "-" THEN -1 ELSE 1) * u.val) ELSE u
    ELSE UFloat(s)

\* int(text or 0) and float(text or 0): None and "" give zero.
IntOr0(s) == IF Truthy(s) THEN ParseInt(s) ELSE Ok(0)
FloatOr0(s) == IF Truthy(s) THEN ParseFloat(s) ELSE Ok(0)

\* ------------------------------------------------------------- documents
\* A fetched page: the transport's verdict, the tables of the live tree and,
\* per comment node, the tables its text parses to.
Cell(stat, text, href) == [stat |-> stat, text |-> text, href |-> href]
Row(cls, cells) == [class |-> cls, cells |-> cells]
Table(id, caption, thead, tbody) ==
    [node |-> TRUE, id |-> id, caption |-> caption, thead |-> thead, tbody |-> tbody]
Page(live, comments) == [ok |-> TRUE, live |-> live, comments |-> comments]
\* requests.get or raise_for_status raised.
FetchError == [ok |-> FALSE, live |-> <<>>, comments |-> <<>>]
\* find() found nothing.
NoNode == [node |-> FALSE]
\* The thead or tbody of a table that has none.
Absent == <<NoNode>>

\* soup.find("table", id=...): the first such table of a tree.
FindTable(tbls, id) ==
    IF \E i \in 1..Len(tbls) : tbls[i].id = id
    THEN tbls[CHOOSE i \in 1..Len(tbls) :
                 tbls[i].id = id /\ \A j \in 1..(i - 1) : tbls[j].id /= id]
    ELSE NoNode

\* LocateTable, had the comments been searched before the live tree.
LocateTableCommentsFirst(doc, id) ==
    LET live == FindTable(doc.live, id)
        hits == {c \in 1..Len(doc.comments) : FindTable(doc.comments[c], id).node}
    IN  IF hits /= {}
        THEN FindTable(doc.comments[CHOOSE c \in hits : \A d \in hits : c <= d], id)
        ELSE live

\* The table of that id in the live tree, else in the first comment holding one.
LocateTable(doc, id) ==
    LET live == FindTable(doc.live, id)
        hits == {c \in 1..Len(doc.comments) : FindTable(doc.comments[c], id).node}
    IN  IF live.node THEN live
        ELSE IF hits = {} THEN NoNode
        ELSE FindTable(doc.comments[CHOOSE c \in hits : \A d \in hits : c <= d], id)

\* [cell.get_text(strip=True) for cell in cells]
CellTexts(cells) == [i \in 1..Len(cells) |-> cells[i].text]

\* dict(zip(headers, row_data)).get(key): the last pair wins, None when absent.
DictGet(headers, row_data, key) ==
    LET n == IF Len(headers) < Len(row_data) THEN Len(headers) ELSE Len(row_data)
        at == {i \in 1..n : headers[i] = key}
    IN  IF at = {} THEN NULL ELSE row_data[CHOOSE i \in at : \A j \in at : j <= i]

\* ------------------------------------------------------------- the store
\* "col = ?" of a WHERE clause: NULL equals nothing, itself included.
SqlEq(col, param) == col /= NULL /\ param /= NULL /\ col = param

\* No stat-snapshot column set: every one of them is NULL.
NoStats == <<>>

\* ------------------------------------------------------------- roster driver
TEAM_ABBRS == <<"ATL", "BOS", "BRK", "CHO", "CHI", "CLE", "DAL", "DEN", "DET", "GSW",
                "HOU", "IND", "LAC", "LAL", "MEM", "MIA", "MIL", "MIN", "NOP", "NYK",
                "OKC", "ORL", "PHI", "PHO", "POR", "SAC", "SAS", "TOR", "UTA", "WAS">>

\* The nine values a roster row gives the duplicate check and the INSERT.
RosterValues(headers, row_data, team) ==
    [name          |-> DictGet(headers, row_data, "Player"),
     team          |-> team,
     position      |-> DictGet(headers, row_data, "Pos"),
     height        |-> DictGet(headers, row_data, "Ht"),
     weight        |-> FloatOr0(DictGet(headers, row_data, "Wt")),
     birth_date    |-> DictGet(headers, row_data, "Birth Date"),
     birth_country |-> DictGet(headers, row_data, "Birth"),
     experience    |-> DictGet(headers, row_data, "Exp"),
     college       |-> DictGet(headers, row_data, "College")]

\* SELECT id FROM players WHERE name = ? AND team = ? AND ... AND college = ?
RosterDuplicate(tbl, v) ==
    \E i \in 1..Len(tbl) :
        /\ SqlEq(tbl[i].name, v.name)
        /\ SqlEq(tbl[i].team, v.team)
        /\ SqlEq(tbl[i].position, v.position)
        /\ SqlEq(tbl[i].height, v.height)
        /\ tbl[i].weight = v.weight.val
        /\ SqlEq(tbl[i].birth_date, v.birth_date)
        /\ SqlEq(tbl[i].birth_country, v.birth_country)
        /\ SqlEq(tbl[i].experience, v.experience)
        /\ SqlEq(tbl[i].college, v.college)

\* INSERT INTO players (name, ..., college): the other columns stay NULL.
PlayerRow(id, v) ==
    [id |-> id, name |-> v.name, team |-> v.team, position |-> v.position,
     height |-> v.height, weight |-> v.weight.val, birth_date |-> v.birth_date,
     birth_country |-> v.birth_country, experience |-> v.experience,
     college |-> v.college, url |-> NULL, season |-> NULL, stats |-> NoStats]

\* The body rows of one team's table, in order, against the open transaction
\* db = [tbl, seq, exc]: a row with no cell is passed over, a duplicate is
\* skipped, an exception ends the loop.
RECURSIVE RosterRows(_, _, _, _)
RosterRows(rows, headers, team, db) ==
    IF rows = <<>> \/ db.exc /= NULL THEN db
    ELSE LET row_data == CellTexts(Head(rows).cells)
             v == RosterValues(headers, row_data, team)
             next ==
                 IF row_data = <<>> THEN db
                 ELSE IF ~v.weight.ok THEN [db EXCEPT !.exc = v.weight.exc]
                 ELSE IF RosterDuplicate(db.tbl, v) THEN db
                 ELSE IF v.name = NULL THEN [db EXCEPT !.exc = "IntegrityError"]
                 ELSE [db EXCEPT !.tbl = Append(db.tbl, PlayerRow(db.seq + 1, v)),
                                 !.seq = db.seq + 1]
         IN  RosterRows(Tail(rows), headers, team, next)

\* ------------------------------------------------------------- driver loop
\* What became of one work item: fetch is "ok", "error" or "none" (no request
\* made), result what the item ended as, msg the line the code printed for it
\* ("" when it printed none) and n the number that line gives (0 without one).  The variable outcome holds the entries of the
\* items the last step handled: one for a pass of a loop, all for a script
\* that is one step.
Entry(item, fetch, result, msg, n) ==
    [item |-> item, fetch |-> fetch, result |-> result, msg |-> msg, n |-> n]

\* No script is running: none was started yet, or the last one ended.
Idle == status \in {"idle", "done", "aborted"}

\* A script starts its loop over the work list w.  A rerun (rp) is the same
\* driver started again right after it completed, the site serving then what
\* it served before; the pages served are kept for it when recording.
Begin(d, w, rp) ==
    /\ Idle
    /\ rp => (recording /\ driver = d /\ status = "done" /\ ~replay)
    /\ driver' = d
    /\ work' = w
    /\ idx' = 1
    /\ status' = IF w = <<>> THEN "done" ELSE "running"
    /\ outcome' = <<>>
    /\ replay' = rp
    /\ fetched' = IF rp THEN fetched ELSE <<>>
    /\ wire' = "rested"

\* The pages the site may serve for the current item.
Served(docs) == IF replay THEN {fetched[idx]} ELSE docs

\* Advance, had the loops left at the first item they could not store.
AdvanceOrStop(entry) ==
    /\ idx' = idx + 1
    /\ outcome' = <<entry>>
    /\ status' = IF entry.result \in {"crashed", "skipped"} THEN "aborted"
                 ELSE IF idx = Len(work) THEN "done" ELSE "running"
    /\ UNCHANGED <<driver, work, replay, assigned, setting>>

\* The loop moves past the current item; an uncaught exception ends the
\* process instead.
Advance(entry) ==
    /\ idx' = idx + 1
    /\ outcome' = <<entry>>
    /\ status' = IF entry.result = "crashed" THEN "aborted"
                 ELSE IF idx = Len(work) THEN "done" ELSE "running"
    /\ UNCHANGED <<driver, work, replay, assigned, setting>>

\* The requests and pauses of a run, as they follow each other: wire is
\* "busy" after a request that no time.sleep has followed yet, "rested"
\* otherwise, and "hasty" for the rest of the run once a request was made
\* while busy.
RECURSIVE After(_, _)
After(w, events) ==
    IF events = <<>> THEN w
    ELSE After(IF w = "hasty" THEN "hasty"
               ELSE IF Head(events) = "sleep" THEN "rested"
               ELSE IF w = "busy" THEN "hasty" ELSE "busy",
               Tail(events))

\* What a pass of a loop does on the wire: "get" a request, "sleep" a pause.
Pace(events) == wire' = After(wire, events)

\* The page served for the current item is kept for a rerun.
Keep(doc) == fetched' = IF recording /\ ~replay THEN Append(fetched, doc) ELSE fetched

Running(d) == driver = d /\ status = "running" /\ idx <= Len(work)

\* ------------------------------------------------------------- roster pages
RosterHead == <<"No.", "Player", "Pos", "Ht", "Wt", "Birth Date", "Birth", "Exp", "College">>

TextRow(texts) == Row({}, [i \in 1..Len(texts) |-> Cell("", texts[i], NULL)])

RowSmith == TextRow(<<"0", "Al Smith", "PG", "6-1", "190", "January 1, 2000", "us", "3", "Duke">>)
\* No College cell.
RowSmithShort == TextRow(<<"0", "Al Smith", "PG", "6-1", "190", "January 1, 2000", "us", "3">>)
\* An empty College cell and an empty weight.
RowAlan == TextRow(<<"1", "Alan Smith", "C", "7-0", "", "May 5, 2001", "ca", "R", "">>)
RowNene == TextRow(<<"42", "Nene", "C", "6-11", "250.5", "September 13, 1982", "br", "17", "">>)
RowBadWt == TextRow(<<"5", "Bo Li", "SG", "6-4", "n/a", "June 6, 1999", "cn", "1", "">>)
RowNoCells == Row({}, <<>>)

RosterTable(rows) == Table("roster", NULL, RosterHead, rows)

\* The roster a team's page lists: in a comment for the first team, in the
\* live tree for the others.
RosterPage(team) ==
    IF team = TEAM_ABBRS[1] THEN Page(<<>>, << <<>>, <<RosterTable(<<RowSmithShort>>)>> >>)
    ELSE IF team = TEAM_ABBRS[2] THEN Page(<<RosterTable(<<RowNoCells, RowAlan>>)>>, <<>>)
    ELSE Page(<<RosterTable(<<RowNene>>)>>, <<>>)

\* What the site may serve for a team: no answer, a page without the table,
\* the team's roster, that page with one more comment at its end that holds
\* another roster, a roster with an unreadable weight, a table without a
\* Player column.
RosterDocs(team) ==
    { FetchError,
      Page(<<>>, << <<>> >>),
      RosterPage(team),
      Page(RosterPage(team).live,
           RosterPage(team).comments \o << <<RosterTable(<<RowSmith>>)>> >>),
      Page(<<RosterTable(<<RowSmith, RowBadWt>>)>>, <<>>),
      Page(<<Table("roster", NULL, <<"No.">>, <<TextRow(<<"7">>)>>)>>, <<>>) }

\* scrape_all_teams_roster, up to its loop.
RosterStart(rp) ==
    /\ family = "players"
    /\ Begin("roster", SubSeq(TEAM_ABBRS, 1, NumTeams), rp)
    /\ UNCHANGED <<tables, sqlite_sequence, assigned, setting, csv>>

\* RosterTeam, had conn.commit() been placed after the loop over the teams:
\* an exception then loses the rows of the teams the run had passed.
RosterTeamOneCommit(doc) ==
    LET team == work[idx]
        tbl == LocateTable(doc, "roster")
        db == RosterRows(tbl.tbody, tbl.thead, team,
                         [tbl |-> players, seq |-> sqlite_sequence.players, exc |-> NULL])
    IN  /\ Keep(doc)
        /\ IF ~doc.ok
           THEN /\ Advance(Entry(team, "error", "skipped", "Error fetching", 0))
                /\ UNCHANGED <<tables, sqlite_sequence>>
           ELSE IF ~tbl.node
           THEN /\ Advance(Entry(team, "ok", "skipped", "No roster table found", 0))
                /\ UNCHANGED <<tables, sqlite_sequence>>
           ELSE IF db.exc /= NULL
           THEN /\ Advance(Entry(team, "ok", "crashed", db.exc, 0))
                /\ players' = SelectSeq(players,
                                  LAMBDA r : \A k \in 1..(idx - 1) : r.team /= work[k])
                /\ UNCHANGED <<gamelogs, box_scores, adv_box_scores, sqlite_sequence>>
           ELSE /\ Advance(Entry(team, "ok", "stored", "", 0))
                /\ players' = db.tbl
                /\ sqlite_sequence' = [sqlite_sequence EXCEPT !.players = db.seq]
                /\ UNCHANGED <<gamelogs, box_scores, adv_box_scores>>

\* One pass of the loop over TEAM_ABBRS: fetch, locate, insert, commit.
RosterTeam(doc) ==
    LET team == work[idx]
        tbl == LocateTable(doc, "roster")
        db == RosterRows(tbl.tbody, tbl.thead, team,
                         [tbl |-> players, seq |-> sqlite_sequence.players, exc |-> NULL])
    IN  /\ Keep(doc)
        /\ IF ~doc.ok
           THEN /\ Advance(Entry(team, "error", "skipped", "Error fetching", 0))
                /\ UNCHANGED <<tables, sqlite_sequence>>
           ELSE IF ~tbl.node
           THEN /\ Advance(Entry(team, "ok", "skipped", "No roster table found", 0))
                /\ UNCHANGED <<tables, sqlite_sequence>>
           ELSE IF db.exc /= NULL
           THEN /\ Advance(Entry(team, "ok", "crashed", db.exc, 0))
                /\ UNCHANGED <<tables, sqlite_sequence>>
           ELSE /\ Advance(Entry(team, "ok", "stored", "", 0))
                /\ players' = db.tbl
                /\ sqlite_sequence' = [sqlite_sequence EXCEPT !.players = db.seq]
                /\ UNCHANGED <<gamelogs, box_scores, adv_box_scores>>

RosterItem ==
    /\ Running("roster")
    /\ \E doc \in Served(RosterDocs(work[idx])) :
           RosterTeam(doc) /\ sqlite_sequence'.players <= seeded + MaxPlayers
    /\ Pace(<<"sleep", "get">>)
    /\ UNCHANGED csv

\* ------------------------------------------------------------- URL pass
Uppers == "ABCDEFGHIJKLMNOPQRSTUVWXYZ"
Lowers == "abcdefghijklmnopqrstuvwxyz"

LowerChar(c) ==
    IF \E i \in 1..Len(Uppers) : Char(Uppers, i) = c
    THEN Char(Lowers, CHOOSE i \in 1..Len(Uppers) : Char(Uppers, i) = c)
    ELSE c

\* str.lower()
RECURSIVE Lower(_)
Lower(s) == IF Len(s) = 0 THEN "" ELSE LowerChar(Char(s, 1)) \o Lower(SubSeq(s, 2, Len(s)))

\* s[:n]
Prefix(s, n) == SubSeq(s, 1, IF n < Len(s) THEN n ELSE Len(s))

\* str.split(): the runs of non-blank characters (cur is the run being read).
RECURSIVE SplitFrom(_, _, _)
SplitFrom(s, i, cur) ==
    IF i > Len(s) THEN (IF cur = "" THEN <<>> ELSE <<cur>>)
    ELSE IF Char(s, i) = " "
         THEN (IF cur = "" THEN <<>> ELSE <<cur>>) \o SplitFrom(s, i + 1, "")
         ELSE SplitFrom(s, i + 1, cur \o Char(s, i))

Split(s) == SplitFrom(s, 1, "")

\* str(n) for n >= 0
RECURSIVE Decimal(_)
Decimal(n) == IF n < 10 THEN Digits[n + 1] ELSE Decimal(n \div 10) \o Digits[(n % 10) + 1]

\* f"{n:02d}"
Format02d(n) == IF n < 10 THEN "0" \o Decimal(n) ELSE Decimal(n)

\* folder, last_part and first_part of construct_url.
Stem(parts) ==
    LET first_name == parts[1]
        last_name == parts[Len(parts)]
    IN  [folder |-> Lower(Prefix(last_name, 1)),
         last_part |-> Lower(IF Len(last_name) >= 5 THEN Prefix(last_name, 5)
                             ELSE last_name \o Prefix(first_name, 5 - Len(last_name))),
         first_part |-> Lower(Prefix(first_name, 2))]

\* The url the loop of construct_url builds from a counter value.
CandidateUrl(stem, suffix) ==
    "https://www.basketball-reference.com/players/" \o stem.folder \o "/"
        \o stem.last_part \o stem.first_part \o Format02d(suffix) \o ".html"

\* UrlFrom, had the loop counted down from MaxSuffix.
UrlFromLast(stem, suffix, existing_urls) ==
    LET free == {s \in suffix..MaxSuffix : CandidateUrl(stem, s) \notin existing_urls}
    IN  IF free = {} THEN NULL
        ELSE CandidateUrl(stem, CHOOSE s \in free : \A t \in free : t <= s)

\* The while loop of construct_url, entered with this counter value.
\* It returns the url of the first counter value whose url is not taken, and
\* None once the counter has passed MaxSuffix.
UrlFrom(stem, suffix, existing_urls) ==
    LET free == {s \in suffix..MaxSuffix : CandidateUrl(stem, s) \notin existing_urls}
    IN  IF free = {} THEN NULL
        ELSE CandidateUrl(stem, CHOOSE s \in free : \A t \in free : s <= t)

construct_url(player_name, existing_urls) ==
    IF Len(Split(player_name)) < 2 THEN NULL
    ELSE UrlFrom(Stem(Split(player_name)), 1, existing_urls)

\* AssignUrls, had the loop not added the urls it assigns to existing_urls.
RECURSIVE AssignUrlsForgetful(_, _)
AssignUrlsForgetful(todo, acc) ==
    IF todo = <<>> THEN acc
    ELSE LET i == Head(todo)
             url == construct_url(acc.tbl[i].name, acc.existing_urls)
         IN  AssignUrlsForgetful(Tail(todo),
                 IF url /= NULL
                 THEN [acc EXCEPT !.tbl = [acc.tbl EXCEPT ![i].url = url],
                                  !.out = Append(@, Entry(acc.tbl[i].id, "none", "assigned", "", 0))]
                 ELSE [acc EXCEPT !.out = Append(@, Entry(acc.tbl[i].id, "none", "unassigned", "", 0))])

\* The loop of generate_player_urls over the rows without URL, by index into
\* the table; acc = [tbl, existing_urls, out].
RECURSIVE AssignUrls(_, _)
AssignUrls(todo, acc) ==
    IF todo = <<>> THEN acc
    ELSE LET i == Head(todo)
             url == construct_url(acc.tbl[i].name, acc.existing_urls)
         IN  AssignUrls(Tail(todo),
                 IF url /= NULL
                 THEN [tbl |-> [acc.tbl EXCEPT ![i].url = url],
                       existing_urls |-> acc.existing_urls \cup {url},
                       out |-> Append(acc.out, Entry(acc.tbl[i].id, "none", "assigned", "", 0))]
                 ELSE [acc EXCEPT !.out = Append(@, Entry(acc.tbl[i].id, "none", "unassigned", "", 0))])

\* SELECT id, name FROM players WHERE url IS NULL, as indices into the table.
NoUrlFrom(tbl, i) ==
    LET WithoutUrl(k) == k >= i /\ tbl[k].url = NULL
    IN  SelectSeq([k \in 1..Len(tbl) |-> k], WithoutUrl)

\* generate_player_urls: one transaction, committed at its end.
generate_player_urls ==
    LET todo == NoUrlFrom(players, 1)
        acc == AssignUrls(todo,
                   [tbl |-> players,
                    existing_urls |-> {players[i].url : i \in 1..Len(players)} \ {NULL},
                    out |-> <<>>])
    IN  /\ family = "players"
        /\ Idle
        /\ players' = acc.tbl
        /\ driver' = "urls"
        /\ work' = [k \in 1..Len(todo) |-> players[todo[k]].id]
        /\ idx' = Len(todo) + 1
        /\ status' = "done"
        /\ outcome' = acc.out
        /\ replay' = FALSE
        /\ fetched' = <<>>
        /\ assigned' = assigned \cup {<<acc.tbl[todo[k]].id, acc.tbl[todo[k]].url>> :
                                       k \in {j \in 1..Len(todo) : acc.tbl[todo[j]].url /= NULL}}
        /\ wire' = "rested"
        /\ UNCHANGED <<gamelogs, box_scores, adv_box_scores, sqlite_sequence, setting, csv>>

\* ------------------------------------------------------------- stats driver
desired_stats == <<"Season", "G", "GS", "MP", "FG", "FGA", "FG%", "3P", "3PA", "3P%",
                   "2P", "2PA", "2P%", "eFG%", "FT", "FTA", "FT%", "ORB", "DRB", "TRB",
                   "AST", "STL", "BLK", "TOV", "PF", "PTS">>

\* sub in s
Contains(s, sub) ==
    \E i \in 1..(Len(s) - Len(sub) + 1) : SubSeq(s, i, i + Len(sub) - 1) = sub

\* find_all("tr", class_=lambda x: x != "thead"): a row passes unless its
\* class attribute is the one token "thead".
NotTheadClass(row) == row.class /= {"thead"}

\* filter(f, rows), in order
RECURSIVE BodyRows(_)
BodyRows(rows) ==
    IF rows = <<>> \/ rows = Absent THEN <<>>
    ELSE (IF NotTheadClass(Head(rows)) THEN <<Head(rows)>> ELSE <<>>) \o BodyRows(Tail(rows))

\* rows_data of get_player_stats: the cell texts of the rows that have cells.
RECURSIVE RowsData(_)
RowsData(rows) ==
    IF rows = <<>> THEN <<>>
    ELSE (IF Head(rows).cells /= <<>> THEN <<CellTexts(Head(rows).cells)>> ELSE <<>>)
             \o RowsData(Tail(rows))

IsSeasonRow(row_text) ==
    ~Contains(Lower(row_text[1]), "career") /\ ~Contains(Lower(row_text[1]), "playoffs")

\* A row or a header list that is None; a row that has cells is not empty.
NoRow == <<>>

\* LatestRow, had the rows been gone through from the first one on.
LatestRowFirst(rows_data) ==
    LET ok == {i \in 1..Len(rows_data) : IsSeasonRow(rows_data[i])}
    IN  IF ok = {} THEN NoRow ELSE rows_data[CHOOSE i \in ok : \A j \in ok : i <= j]

\* The last row that is neither a career nor a playoffs row, None without one.
LatestRow(rows_data) ==
    LET ok == {i \in 1..Len(rows_data) : IsSeasonRow(rows_data[i])}
    IN  IF ok = {} THEN NoRow ELSE rows_data[CHOOSE i \in ok : \A j \in ok : j <= i]

\* get_player_stats: [headers, latest_row], latest_row None when the request,
\* the table or a season row is missing.  The table stands for the switcher
\* container around it, which is what the code looks for in the live tree
\* and then in the comments.
get_player_stats(doc) ==
    LET table == LocateTable(doc, "per_game_stats")
    IN  IF ~doc.ok \/ ~table.node THEN [headers |-> NoRow, latest_row |-> NoRow]
        ELSE [headers |-> table.thead,
              latest_row |-> LatestRow(RowsData(BodyRows(table.tbody)))]

\* stats[stat]: the cell under the first header equal to stat, case ignored,
\* "0" when there is no such header or the row is too short.
StatText(table_headers, latest_row, stat) ==
    LET at == {i \in 1..Len(table_headers) : Lower(table_headers[i]) = Lower(stat)}
        i == CHOOSE k \in at : \A j \in at : k <= j
    IN  IF at /= {} /\ i <= Len(latest_row) THEN latest_row[i] ELSE "0"

\* The 25 values float(stats[...] or 0) of the UPDATE, in column order.
StatValues(table_headers, latest_row) ==
    [k \in 1..(Len(desired_stats) - 1) |->
        FloatOr0(StatText(table_headers, latest_row, desired_stats[k + 1]))]

\* UpdateStats, had the UPDATE been written without its WHERE clause.
UpdateStatsAll(tbl, url, season, values) ==
    [i \in 1..Len(tbl) |->
        [tbl[i] EXCEPT !.season = season,
                       !.stats = [k \in 1..Len(values) |-> values[k].val]]]

\* UpdateStats, had the UPDATE been written WHERE url = ? OR url IS NULL.
UpdateStatsOrNull(tbl, url, season, values) ==
    [i \in 1..Len(tbl) |->
        IF SqlEq(tbl[i].url, url) \/ tbl[i].url = NULL
        THEN [tbl[i] EXCEPT !.season = season,
                            !.stats = [k \in 1..Len(values) |-> values[k].val]]
        ELSE tbl[i]]

\* UPDATE players SET season = ?, games = ?, ... WHERE url = ?
UpdateStats(tbl, url, season, values) ==
    [i \in 1..Len(tbl) |->
        IF SqlEq(tbl[i].url, url)
        THEN [tbl[i] EXCEPT !.season = season,
                            !.stats = [k \in 1..Len(values) |-> values[k].val]]
        ELSE tbl[i]]

StatsHead == <<"Season", "Age", "G", "PTS">>

StatsDocs ==
    { FetchError,
      Page(<<>>, <<>>),
      Page(<<Table("per_game_stats", NULL, StatsHead,
                   <<TextRow(<<"2023-24", "23", "70", "9.5">>),
                     Row({"thead"}, <<Cell("", "Season", NULL)>>),
                     TextRow(<<"2024-25", "24", "", "11.2">>),
                     TextRow(<<"Career", "", "80", "10.1">>),
                     TextRow(<<"2024-25 PLAYOFFS", "24", "4", "8.0">>)>>)>>, <<>>),
      Page(<<>>, << <<Table("per_game_stats", NULL, StatsHead,
                   <<TextRow(<<"2024-25", "24", "Did Not Play">>)>>)>> >>),
      Page(<<Table("per_game_stats", NULL, StatsHead,
                   <<TextRow(<<"Career", "", "80", "10.1">>)>>)>>, <<>>) }

\* scrape_latest_season_stats, up to its loop: SELECT name, team, position, url.
StatsStart ==
    /\ family = "players"
    /\ Begin("stats", [i \in 1..Len(players) |-> players[i].url], FALSE)
    /\ UNCHANGED <<tables, sqlite_sequence, assigned, setting, csv>>

\* What each page gives get_player_stats and the UPDATE's parameters,
\* tabulated once.
StatsOf ==
    [doc \in StatsDocs |->
        LET got == get_player_stats(doc)
        IN  [got |-> got,
             season |-> StatText(got.headers, got.latest_row, "Season"),
             values |-> StatValues(got.headers, got.latest_row)]]

\* One pass of the loop over the players read at the start.
StatsPlayer(doc) ==
    LET url == work[idx]
        got == StatsOf[doc].got
        values == StatsOf[doc].values
    IN  IF got.latest_row = NoRow
        THEN /\ Advance(Entry(url, IF doc.ok THEN "ok" ELSE "error", "skipped",
                              "Could not extract valid stats", 0))
             /\ UNCHANGED <<tables, sqlite_sequence>>
        ELSE IF \E k \in 1..Len(values) : ~values[k].ok
        THEN /\ Advance(Entry(url, "ok", "failed", "Error updating stats", 0))
             /\ UNCHANGED <<tables, sqlite_sequence>>
        ELSE /\ Advance(Entry(url, "ok", "stored", "Stats updated", 0))
             /\ players' = UpdateStats(players, url, StatsOf[doc].season, values)
             /\ UNCHANGED <<gamelogs, box_scores, adv_box_scores, sqlite_sequence>>

StatsItem ==
    /\ Running("stats")
    /\ \/ /\ ~Truthy(work[idx])
          /\ Advance(Entry(work[idx], "none", "skipped", "No URL", 0))
          /\ Pace(<<"sleep">>)
          /\ UNCHANGED <<tables, sqlite_sequence, fetched, csv>>
       \/ /\ Truthy(work[idx])
          /\ \E doc \in StatsDocs : StatsPlayer(doc)
          /\ Pace(<<"sleep", "get">>)
          /\ UNCHANGED <<fetched, csv>>

\* ------------------------------------------------------------- organize_db
\* key = (name, team, position, height, weight, birth_date, birth_country,
\*        experience, college), compared as Python compares tuples.
Key(r) == <<r.name, r.team, r.position, r.height, r.weight, r.birth_date,
            r.birth_country, r.experience, r.college>>

\* ToDelete, had the loop marked the rows whose key a later row has.
ToDeleteKeepLast(rows, i, unique_map) ==
    LET Seen(k) == k >= i /\ \E j \in (k + 1)..Len(rows) : Key(rows[j]) = Key(rows[k])
        dup == SelectSeq([k \in 1..Len(rows) |-> k], Seen)
    IN  [k \in 1..Len(dup) |-> rows[dup[k]].id]

\* to_delete: the ids of the rows whose key an earlier row (ORDER BY id) has.
\* unique_map holds, at row i, the keys of the rows before it.
ToDelete(rows, i, unique_map) ==
    LET Seen(k) == k >= i /\ (\/ Key(rows[k]) \in unique_map
                              \/ \E j \in i..(k - 1) : Key(rows[j]) = Key(rows[k]))
        dup == SelectSeq([k \in 1..Len(rows) |-> k], Seen)
    IN  [k \in 1..Len(dup) |-> rows[dup[k]].id]

\* DELETE FROM players WHERE id = ?, for each id of ids
DeleteIds(rows, ids) ==
    LET Stays(r) == \A k \in 1..Len(ids) : ids[k] /= r.id
    IN  SelectSeq(rows, Stays)

remove_duplicates ==
    LET to_delete == ToDelete(players, 1, {})
    IN  /\ family = "players"
        /\ Idle
        /\ players' = DeleteIds(players, to_delete)
        /\ driver' = "dedup"
        /\ work' = to_delete
        /\ idx' = Len(to_delete) + 1
        /\ status' = "done"
        /\ outcome' = [k \in 1..Len(to_delete) |-> Entry(to_delete[k], "none", "deleted", "Found duplicate", 0)]
        /\ replay' = FALSE
        /\ fetched' = <<>>
        /\ wire' = "rested"
        /\ UNCHANGED <<gamelogs, box_scores, adv_box_scores, sqlite_sequence, assigned, setting, csv>>

\* ------------------------------------------------------------- schedule driver
UpperChar(c) ==
    IF \E i \in 1..Len(Lowers) : Char(Lowers, i) = c
    THEN Char(Uppers, CHOOSE i \in 1..Len(Lowers) : Char(Lowers, i) = c)
    ELSE c

\* str.capitalize()
Capitalize(s) ==
    IF Len(s) = 0 THEN "" ELSE UpperChar(Char(s, 1)) \o Lower(SubSeq(s, 2, Len(s)))

months == <<"october", "november", "december", "january", "february", "march", "april">>

FirstYear == 2004

\* The k-th (year, month) of the loops of scrape_season_schedule_to_db.
YearMonth(k) ==
    [year |-> FirstYear + ((k - 1) \div Len(months)), month |-> months[((k - 1) % Len(months)) + 1]]

\* GameValues, had the two points columns been read from each other's cell.
GameValuesSwapped(cells, ym) ==
    [season_year    |-> ym.year,
     month          |-> Capitalize(ym.month),
     game_date      |-> cells[1].text,
     start_et       |-> cells[2].text,
     visitor_team   |-> cells[3].text,
     visitor_pts    |-> ParseInt(IF Truthy(cells[6].text) THEN cells[6].text ELSE "0"),
     home_team      |-> cells[5].text,
     home_pts       |-> ParseInt(IF Truthy(cells[4].text) THEN cells[4].text ELSE "0"),
     box_score_link |-> IF cells[7].href = NULL THEN NULL
                        ELSE "https://www.basketball-reference.com" \o cells[7].href,
     overtime       |-> cells[8].text,
     attendance     |-> IF Len(cells) > 8 THEN cells[9].text ELSE "",
     notes          |-> IF Len(cells) > 9 THEN cells[10].text ELSE ""]

\* The values one schedule row gives the duplicate check and the INSERT.
GameValues(cells, ym) ==
    [season_year    |-> ym.year,
     month          |-> Capitalize(ym.month),
     game_date      |-> cells[1].text,
     start_et       |-> cells[2].text,
     visitor_team   |-> cells[3].text,
     visitor_pts    |-> ParseInt(IF Truthy(cells[4].text) THEN cells[4].text ELSE "0"),
     home_team      |-> cells[5].text,
     home_pts       |-> ParseInt(IF Truthy(cells[6].text) THEN cells[6].text ELSE "0"),
     box_score_link |-> IF cells[7].href = NULL THEN NULL
                        ELSE "https://www.basketball-reference.com" \o cells[7].href,
     overtime       |-> cells[8].text,
     attendance     |-> IF Len(cells) > 8 THEN cells[9].text ELSE "",
     notes          |-> IF Len(cells) > 9 THEN cells[10].text ELSE ""]

\* GameDuplicate, had the check included the month and the year as well.
GameDuplicateInMonth(tbl, v) ==
    \E i \in 1..Len(tbl) :
        /\ SqlEq(tbl[i].game_date, v.game_date)
        /\ SqlEq(tbl[i].visitor_team, v.visitor_team)
        /\ SqlEq(tbl[i].home_team, v.home_team)
        /\ tbl[i].season_year = v.season_year
        /\ tbl[i].month = v.month

\* SELECT id FROM gamelogs WHERE game_date = ? AND visitor_team = ? AND home_team = ?
GameDuplicate(tbl, v) ==
    \E i \in 1..Len(tbl) :
        /\ SqlEq(tbl[i].game_date, v.game_date)
        /\ SqlEq(tbl[i].visitor_team, v.visitor_team)
        /\ SqlEq(tbl[i].home_team, v.home_team)

GameRow(id, v) ==
    [id |-> id, season_year |-> v.season_year, month |-> v.month,
     game_date |-> v.game_date, start_et |-> v.start_et,
     visitor_team |-> v.visitor_team, visitor_pts |-> v.visitor_pts.val,
     home_team |-> v.home_team, home_pts |-> v.home_pts.val,
     box_score_link |-> v.box_score_link, overtime |-> v.overtime,
     attendance |-> v.attendance, notes |-> v.notes]

\* The loop over the rows of one schedule page, against the open transaction
\* db = [tbl, seq, exc].
RECURSIVE GameRows(_, _, _)
GameRows(rows, ym, db) ==
    IF rows = <<>> \/ db.exc /= NULL THEN db
    ELSE LET cells == Head(rows).cells
             v == GameValues(cells, ym)
             next ==
                 IF Len(cells) < 9 THEN db
                 ELSE IF GameDuplicate(db.tbl, v) THEN db
                 ELSE IF ~v.visitor_pts.ok THEN [db EXCEPT !.exc = v.visitor_pts.exc]
                 ELSE IF ~v.home_pts.ok THEN [db EXCEPT !.exc = v.home_pts.exc]
                 ELSE [db EXCEPT !.tbl = Append(db.tbl, GameRow(db.seq + 1, v)),
                                 !.seq = db.seq + 1]
         IN  GameRows(Tail(rows), ym, next)

LinkCell(text, href) == Cell("box_score_text", text, href)
GameCells(texts, href) ==
    [i \in 1..Len(texts) |-> IF i = 7 THEN LinkCell(texts[i], href) ELSE Cell("", texts[i], NULL)]

HrefA == "/boxscores/202410220BOS.html"
HrefB == "/boxscores/202410230DET.html"

GameA == Row({}, GameCells(<<"Tue, Oct 22, 2024", "7:30p", "New York Knicks", "109",
                             "Boston Celtics", "132", "Box Score", "", "19156", "">>, HrefA))
\* The same game with other points, no link and no notes cell.
GameA2 == Row({}, GameCells(<<"Tue, Oct 22, 2024", "7:30p", "New York Knicks", "110",
                              "Boston Celtics", "131", "", "OT", "19156">>, NULL))
\* A game not played yet: no points.
GameB == Row({}, GameCells(<<"Wed, Oct 23, 2024", "7:00p", "Indiana Pacers", "",
                             "Detroit Pistons", "", "Box Score", "", "">>, HrefB))
\* Another game with the link of that one.
GameB2 == Row({}, GameCells(<<"Thu, Oct 24, 2024", "7:00p", "Indiana Pacers", "",
                              "Detroit Pistons", "", "Box Score", "", "">>, HrefB))
GameShort == Row({}, GameCells(<<"Thu, Oct 24, 2024", "7:00p", "Boston Celtics", "1",
                                 "Washington Wizards", "2", "", "">>, NULL))
GameBad == Row({}, GameCells(<<"Fri, Oct 25, 2024", "7:00p", "Chicago Bulls", "TBD",
                               "Milwaukee Bucks", "TBD", "", "", "">>, NULL))
GameHead == Row({"thead"}, <<Cell("date_game", "Date", NULL)>>)

ScheduleTable(tbody) == Table("schedule", NULL, <<>>, tbody)

\* The schedule a month's page lists: the first month the one game, the
\* second in a comment, another game and the first one again, twice.
SchedulePage(ym) ==
    IF ym.month = months[1] THEN Page(<<ScheduleTable(<<GameA>>)>>, <<>>)
    ELSE IF ym.month = months[2]
    THEN Page(<<>>, << <<ScheduleTable(<<GameHead, GameB, GameA2, GameA2>>)>> >>)
    ELSE Page(<<ScheduleTable(<<GameShort>>)>>, <<>>)

\* What the site may serve for a month: no answer, a page without the
\* table, a table without body, a body of header rows, the month's schedule,
\* that page with one more comment at its end that holds another schedule,
\* a schedule with two games of one link, a schedule with unreadable points.
ScheduleDocs(ym) ==
    { FetchError,
      Page(<<>>, << <<>> >>),
      Page(<<ScheduleTable(Absent)>>, <<>>),
      Page(<<ScheduleTable(<<GameHead>>)>>, <<>>),
      SchedulePage(ym),
      Page(SchedulePage(ym).live,
           SchedulePage(ym).comments \o << <<ScheduleTable(<<GameShort, GameBad>>)>> >>),
      Page(<<ScheduleTable(<<GameB, GameB2>>)>>, <<>>),
      Page(<<ScheduleTable(<<GameShort, GameB, GameBad>>)>>, <<>>) }

\* scrape_season_schedule_to_db, up to its loops.
ScheduleStart(rp) ==
    /\ family = "games"
    /\ Begin("schedule", [k \in 1..NumMonths |-> YearMonth(k)], rp)
    /\ UNCHANGED <<tables, sqlite_sequence, assigned, setting, csv>>

\* scrape_month_schedule_to_db for the current (year, month).
ScheduleMonth(doc) ==
    LET ym == work[idx]
        tbl == LocateTable(doc, "schedule")
        rows == BodyRows(tbl.tbody)
        db == GameRows(rows, ym,
                       [tbl |-> gamelogs, seq |-> sqlite_sequence.gamelogs, exc |-> NULL])
    IN  /\ Keep(doc)
        /\ IF ~doc.ok
           THEN /\ Advance(Entry(ym, "error", "skipped", "[Error] Fetching failed", 0))
                /\ UNCHANGED <<tables, sqlite_sequence>>
           ELSE IF ~tbl.node
           THEN /\ Advance(Entry(ym, "ok", "skipped", "No table with id='schedule' found", 0))
                /\ UNCHANGED <<tables, sqlite_sequence>>
           ELSE IF tbl.tbody = Absent
           THEN /\ Advance(Entry(ym, "ok", "skipped", "No <tbody> found", 0))
                /\ UNCHANGED <<tables, sqlite_sequence>>
           ELSE IF rows = <<>>
           THEN /\ Advance(Entry(ym, "ok", "skipped", "No game rows found", 0))
                /\ UNCHANGED <<tables, sqlite_sequence>>
           ELSE IF db.exc /= NULL
           THEN /\ Advance(Entry(ym, "ok", "crashed", db.exc, 0))
                /\ UNCHANGED <<tables, sqlite_sequence>>
           ELSE /\ Advance(Entry(ym, "ok", "stored", "Inserted new games", db.seq - sqlite_sequence.gamelogs))
                /\ gamelogs' = db.tbl
                /\ sqlite_sequence' = [sqlite_sequence EXCEPT !.gamelogs = db.seq]
                /\ UNCHANGED <<players, box_scores, adv_box_scores>>

\* One pass of the loops of scrape_season_schedule_to_db: the month, then
\* the pause, which an exception does not reach.
ScheduleItem ==
    /\ Running("schedule")
    /\ \E doc \in Served(ScheduleDocs(work[idx])) : ScheduleMonth(doc)
    /\ Pace(IF status' = "aborted" THEN <<"get">> ELSE <<"get", "sleep">>)
    /\ UNCHANGED csv

\* ------------------------------------------------------------- box-score drivers
\* The numeric columns of box_scores_per_game: column, data-stat key, type.
Col(col, stat, type) == [col |-> col, stat |-> stat, type |-> type]

BasicCols ==
    <<Col("fg", "fg", "int"), Col("fga", "fga", "int"), Col("fg_pct", "fg_pct", "float"),
      Col("threep", "fg3", "int"), Col("threepa", "fg3a", "int"),
      Col("threep_pct", "fg3_pct", "float"),
      Col("ft", "ft", "int"), Col("fta", "fta", "int"), Col("ft_pct", "ft_pct", "float"),
      Col("orb", "orb", "int"), Col("drb", "drb", "int"), Col("trb", "trb", "int"),
      Col("ast", "ast", "int"), Col("stl", "stl", "int"), Col("blk", "blk", "int"),
      Col("tov", "tov", "int"), Col("pf", "pf", "int"), Col("pts", "pts", "int"),
      Col("plus_minus", "plus_minus", "int")>>

\* The numeric columns of advanced_box_scores_per_game.
AdvancedCols ==
    <<Col("ts_pct", "ts_pct", "float"), Col("efg_pct", "efg_pct", "float"),
      Col("fg3a_per_fga_pct", "fg3a_per_fga_pct", "float"),
      Col("fta_per_fga_pct", "fta_per_fga_pct", "float"),
      Col("orb_pct", "orb_pct", "float"), Col("drb_pct", "drb_pct", "float"),
      Col("trb_pct", "trb_pct", "float"), Col("ast_pct", "ast_pct", "float"),
      Col("stl_pct", "stl_pct", "float"), Col("blk_pct", "blk_pct", "float"),
      Col("tov_pct", "tov_pct", "float"), Col("usg_pct", "usg_pct", "float"),
      Col("ortg", "off_rtg", "int"), Col("drtg", "def_rtg", "int")>>

\* row.find(attrs={"data-stat": stat}): the first such cell, or nothing.
FindCell(cells, stat) ==
    IF \E i \in 1..Len(cells) : cells[i].stat = stat
    THEN [node |-> TRUE,
          text |-> cells[CHOOSE i \in 1..Len(cells) :
                      cells[i].stat = stat /\ \A j \in 1..(i - 1) : cells[j].stat /= stat].text]
    ELSE NoNode

\* Coerce, had the percentages been stored as per cent.
CoercePerCent(cells, c) ==
    LET cell == FindCell(cells, c.stat)
        read == FloatOr0(cell.text)
    IN  IF ~cell.node THEN Ok(0)
        ELSE IF c.type = "int" THEN IntOr0(cell.text)
        ELSE IF read.ok THEN Ok(100 * read.val) ELSE read

\* Coerce, had the text of the cell been read without testing that the cell
\* is there.
CoerceUnguarded(cells, c) ==
    LET cell == FindCell(cells, c.stat)
    IN  IF ~cell.node THEN Raised("AttributeError")
        ELSE IF c.type = "int" THEN IntOr0(cell.text) ELSE FloatOr0(cell.text)

\* int(cell text or 0) if the cell is there else 0, and the same with float.
Coerce(cells, c) ==
    LET cell == FindCell(cells, c.stat)
    IN  IF ~cell.node THEN Ok(0)
        ELSE IF c.type = "int" THEN IntOr0(cell.text) ELSE FloatOr0(cell.text)

\* SkippedRow, had the name not been tested for "Totals".
SkippedRowKeepsTotals(row, needs_cells) ==
    \/ "thead" \in row.class
    \/ needs_cells /\ row.cells = <<>>
    \/ ~FindCell(row.cells, "player").node
    \/ ~Truthy(FindCell(row.cells, "player").text)

\* Whether the loop of a table parser passes over this row.
SkippedRow(row, needs_cells) ==
    \/ "thead" \in row.class
    \/ needs_cells /\ row.cells = <<>>
    \/ ~FindCell(row.cells, "player").node
    \/ ~Truthy(FindCell(row.cells, "player").text)
    \/ Contains(FindCell(row.cells, "player").text, "Totals")

\* row_dict, with the numeric columns under stats.
RowDict(row, box_score_link, team_name, cols) ==
    [box_score_link |-> box_score_link,
     team |-> team_name,
     player_name |-> FindCell(row.cells, "player").text,
     starter |-> IF "starter" \in row.class THEN 1 ELSE 0,
     mp |-> IF FindCell(row.cells, "mp").node THEN FindCell(row.cells, "mp").text ELSE NULL,
     stats |-> [k \in 1..Len(cols) |-> Coerce(row.cells, cols[k])]]

\* The loop of parse_box_score_table / parse_advanced_box_score_table:
\* Ok(players_data), or the exception a cell raised.
RECURSIVE ParseRows(_, _, _, _, _)
ParseRows(rows, box_score_link, team_name, cols, needs_cells) ==
    IF rows = <<>> \/ rows = Absent THEN Ok(<<>>)
    ELSE IF SkippedRow(Head(rows), needs_cells)
    THEN ParseRows(Tail(rows), box_score_link, team_name, cols, needs_cells)
    ELSE LET d == RowDict(Head(rows), box_score_link, team_name, cols)
             rest == ParseRows(Tail(rows), box_score_link, team_name, cols, needs_cells)
         IN  IF \E k \in 1..Len(cols) : ~d.stats[k].ok THEN Raised("ValueError")
             ELSE IF ~rest.ok THEN rest
             ELSE Ok(<<[d EXCEPT !.stats = [k \in 1..Len(cols) |-> d.stats[k].val]]>> \o rest.val)

StartsWith(s, p) == Len(s) >= Len(p) /\ SubSeq(s, 1, Len(p)) = p
EndsWith(s, p) == Len(s) >= Len(p) /\ SubSeq(s, Len(s) - Len(p) + 1, Len(s)) = p

\* str.replace(old, ""): every occurrence of old, from the left, removed.
RECURSIVE Remove(_, _)
Remove(s, old) ==
    IF Len(s) = 0 THEN ""
    ELSE IF StartsWith(s, old) THEN Remove(SubSeq(s, Len(old) + 1, Len(s)), old)
    ELSE Char(s, 1) \o Remove(SubSeq(s, 2, Len(s)), old)

\* What distinguishes the two box-score scripts.
Basic ==
    [suffix |-> "-game-basic", caption |-> " Basic and Advanced Stats",
     cols |-> BasicCols, needs_cells |-> TRUE]
Advanced ==
    [suffix |-> "-game-advanced", caption |-> " Advanced Stats",
     cols |-> AdvancedCols, needs_cells |-> FALSE]

\* The loop over soup.find_all("table") of scrape_single_box_score(_advanced).
RECURSIVE ScrapeTables(_, _, _)
ScrapeTables(tbls, link, kind) ==
    IF tbls = <<>> THEN Ok(<<>>)
    ELSE LET tbl == Head(tbls)
             team_name == IF tbl.caption /= NULL THEN Remove(tbl.caption, kind.caption)
                          ELSE tbl.id
             data_rows == ParseRows(tbl.tbody, link, team_name, kind.cols, kind.needs_cells)
             rest == ScrapeTables(Tail(tbls), link, kind)
         IN  IF ~StartsWith(tbl.id, "box-") \/ ~EndsWith(tbl.id, kind.suffix) THEN rest
             ELSE IF ~data_rows.ok THEN data_rows
             ELSE IF ~rest.ok THEN rest
             ELSE Ok(data_rows.val \o rest.val)

\* Conflicts, had the table been created without its UNIQUE constraint.
ConflictsNever(tbl, r) == FALSE

\* INSERT OR IGNORE under UNIQUE(box_score_link, team, player_name): a row
\* conflicts with a stored one equal on the three columns, none of them NULL.
Conflicts(tbl, r) ==
    \E i \in 1..Len(tbl) :
        /\ SqlEq(tbl[i].box_score_link, r.box_score_link)
        /\ SqlEq(tbl[i].team, r.team)
        /\ SqlEq(tbl[i].player_name, r.player_name)

\* StoreRows, had the statement been INSERT OR REPLACE: the stored row that
\* conflicts is deleted and the new one inserted.
RECURSIVE StoreRowsReplace(_, _)
StoreRowsReplace(rows, db) ==
    IF rows = <<>> THEN db
    ELSE StoreRowsReplace(Tail(rows),
             [tbl |-> Append(SelectSeq(db.tbl, LAMBDA s : ~Conflicts(<<s>>, Head(rows))),
                             [id |-> db.seq + 1] @@ Head(rows)),
              seq |-> db.seq + 1])

\* The loop of store_box_score_rows / store_advanced_box_score_rows.
RECURSIVE StoreRows(_, _)
StoreRows(rows, db) ==
    IF rows = <<>> THEN db
    ELSE StoreRows(Tail(rows),
             IF Conflicts(db.tbl, Head(rows)) THEN db
             ELSE [tbl |-> Append(db.tbl, [id |-> db.seq + 1] @@ Head(rows)),
                   seq |-> db.seq + 1])

\* DistinctLinks, had the SELECT been written without its WHERE clause.
RECURSIVE DistinctLinksWithNull(_, _)
DistinctLinksWithNull(tbl, seen) ==
    IF tbl = <<>> THEN <<>>
    ELSE IF Head(tbl).box_score_link \in seen
    THEN DistinctLinksWithNull(Tail(tbl), seen)
    ELSE <<Head(tbl).box_score_link>>
             \o DistinctLinksWithNull(Tail(tbl), seen \cup {Head(tbl).box_score_link})

\* SELECT DISTINCT box_score_link FROM gamelogs WHERE box_score_link IS NOT NULL
RECURSIVE DistinctLinks(_, _)
DistinctLinks(tbl, seen) ==
    IF tbl = <<>> THEN <<>>
    ELSE IF Head(tbl).box_score_link = NULL \/ Head(tbl).box_score_link \in seen
    THEN DistinctLinks(Tail(tbl), seen)
    ELSE <<Head(tbl).box_score_link>>
             \o DistinctLinks(Tail(tbl), seen \cup {Head(tbl).box_score_link})

PlayerCell(text) == Cell("player", text, NULL)

Brunson == Row({"starter"}, <<PlayerCell("Jalen Brunson"), Cell("mp", "34:12", NULL),
                              Cell("fg", "8", NULL), Cell("fg_pct", ".455", NULL),
                              Cell("pts", "22", NULL), Cell("plus_minus", "-12", NULL)>>)
\* The same player with other values.
Brunson2 == Row({}, <<PlayerCell("Jalen Brunson"), Cell("mp", "36", NULL),
                      Cell("fg", "", NULL), Cell("pts", "30", NULL)>>)
\* A player who did not play: one reason cell.
Hart == Row({}, <<PlayerCell("Josh Hart"), Cell("reason", "Did Not Play", NULL)>>)
Reserves == Row({"thead"}, <<PlayerCell("Reserves"), Cell("mp", "MP", NULL)>>)
Totals == Row({}, <<PlayerCell("Team Totals"), Cell("mp", "240", NULL), Cell("pts", "109", NULL)>>)
NoName == Row({}, <<PlayerCell(""), Cell("pts", "3", NULL)>>)
BadPts == Row({}, <<PlayerCell("Josh Hart"), Cell("pts", "n/a", NULL)>>)

AdvBrunson == Row({"starter"}, <<PlayerCell("Jalen Brunson"), Cell("mp", "34:12", NULL),
                                 Cell("ts_pct", ".574", NULL), Cell("off_rtg", "112", NULL)>>)
AdvBrunson2 == Row({"starter"}, <<PlayerCell("Jalen Brunson"), Cell("mp", "34:12", NULL),
                                  Cell("usg_pct", "31.5", NULL), Cell("def_rtg", "", NULL)>>)
AdvBad == Row({}, <<PlayerCell("Josh Hart"), Cell("ts_pct", "-", NULL)>>)

NYKBasic(rows) == Table("box-NYK-game-basic", "New York Knicks Basic and Advanced Stats", <<>>, rows)
NYKAdvanced(rows) == Table("box-NYK-game-advanced", "New York Knicks Advanced Stats", <<>>, rows)

\* A box-score page whose tables are all inside a comment.
BoxHidden ==
    Page(<<Table("line_score", NULL, <<>>, <<>>)>>,
         << <<NYKBasic(<<Brunson>>), NYKAdvanced(<<AdvBrunson>>)>> >>)
\* A box-score page with header, nameless and totals rows.
BoxPlain ==
    Page(<<NYKBasic(<<Brunson, Reserves, NoName, Totals>>),
           NYKAdvanced(<<AdvBrunson, Reserves, Totals>>)>>, <<>>)
\* A box-score page that lists a player twice, with other values first.
BoxRepeat ==
    Page(<<NYKBasic(<<Brunson2, Brunson>>),
           Table("box-BOS-game-basic", NULL, <<>>, <<Hart>>),
           NYKAdvanced(<<AdvBrunson2, AdvBrunson>>),
           Table("box-BOS-game-advanced", NULL, <<>>, <<Hart>>)>>, <<>>)
\* A box-score page with an unreadable number.
BoxBad ==
    Page(<<NYKBasic(<<Brunson2, BadPts>>), NYKAdvanced(<<AdvBrunson2, AdvBad>>)>>, <<>>)

\* The pages a box-score link may serve, to either script: the game not
\* played yet has no box score.
BoxDocs(link) ==
    IF link = "https://www.basketball-reference.com" \o HrefA
    THEN {FetchError, BoxHidden, BoxPlain, BoxRepeat, BoxBad}
    ELSE {FetchError, BoxHidden}

\* scrape_box_scores_for_all_games / scrape_advanced_box_scores_for_all_games,
\* up to the loop over the links read from gamelogs.
BoxStart(d, rp) ==
    /\ family = "games"
    /\ Begin(d, DistinctLinks(gamelogs, {}), rp)
    /\ UNCHANGED <<tables, sqlite_sequence, assigned, setting, csv>>

\* One pass of the loop of the basic script: scrape the link, store its rows.
BoxLink(doc) ==
    LET link == work[idx]
        rows == ScrapeTables(doc.live, link, Basic)
        db == StoreRows(rows.val, [tbl |-> box_scores, seq |-> sqlite_sequence.box_scores])
    IN  /\ Keep(doc)
        /\ IF ~doc.ok
           THEN /\ Advance(Entry(link, "error", "skipped", "No data or request failed", 0))
                /\ UNCHANGED <<tables, sqlite_sequence>>
           ELSE IF ~rows.ok
           THEN /\ Advance(Entry(link, "ok", "crashed", rows.exc, 0))
                /\ UNCHANGED <<tables, sqlite_sequence>>
           ELSE IF rows.val = <<>>
           THEN /\ Advance(Entry(link, "ok", "skipped", "No data or request failed", 0))
                /\ UNCHANGED <<tables, sqlite_sequence>>
           ELSE /\ Advance(Entry(link, "ok", "stored", "Inserted player lines", Len(rows.val)))
                /\ box_scores' = db.tbl
                /\ sqlite_sequence' = [sqlite_sequence EXCEPT !.box_scores = db.seq]
                /\ UNCHANGED <<players, gamelogs, adv_box_scores>>

BoxItem ==
    /\ Running("basic")
    /\ \E doc \in Served(BoxDocs(work[idx])) : BoxLink(doc)
    /\ Pace(IF status' = "aborted" THEN <<"get">> ELSE <<"get", "sleep">>)
    /\ UNCHANGED csv

\* One pass of the loop of the advanced script.
AdvancedLink(doc) ==
    LET link == work[idx]
        rows == ScrapeTables(doc.live, link, Advanced)
        db == StoreRows(rows.val,
                        [tbl |-> adv_box_scores, seq |-> sqlite_sequence.adv_box_scores])
    IN  /\ Keep(doc)
        /\ IF ~doc.ok
           THEN /\ Advance(Entry(link, "error", "skipped", "No advanced data or request failed", 0))
                /\ UNCHANGED <<tables, sqlite_sequence>>
           ELSE IF ~rows.ok
           THEN /\ Advance(Entry(link, "ok", "crashed", rows.exc, 0))
                /\ UNCHANGED <<tables, sqlite_sequence>>
           ELSE IF rows.val = <<>>
           THEN /\ Advance(Entry(link, "ok", "skipped", "No advanced data or request failed", 0))
                /\ UNCHANGED <<tables, sqlite_sequence>>
           ELSE /\ Advance(Entry(link, "ok", "stored", "Inserted advanced player lines", Len(rows.val)))
                /\ adv_box_scores' = db.tbl
                /\ sqlite_sequence' = [sqlite_sequence EXCEPT !.adv_box_scores = db.seq]
                /\ UNCHANGED <<players, gamelogs, box_scores>>

AdvancedItem ==
    /\ Running("advanced")
    /\ \E doc \in Served(BoxDocs(work[idx])) : AdvancedLink(doc)
    /\ Pace(IF status' = "aborted" THEN <<"get">> ELSE <<"get", "sleep">>)
    /\ UNCHANGED csv

\* ------------------------------------------------------------- csv-creator
\* The roster script that writes player_info.csv: csv holds its all_data and
\* common_headers (None before the first table) and the file, if written.
NoCsv == [all_data |-> <<>>, common_headers |-> NoRow, file |-> <<>>]

\* pd.DataFrame(all_data, columns=common_headers): the rows filled with None
\* up to the longest, which must be as long as the columns are many.
DataFrame(all_data, common_headers) ==
    LET width == CHOOSE n \in {Len(all_data[i]) : i \in 1..Len(all_data)} :
                     \A i \in 1..Len(all_data) : Len(all_data[i]) <= n
    IN  IF width /= Len(common_headers) THEN Raised("ValueError")
        ELSE Ok([columns |-> common_headers,
                 rows |-> [i \in 1..Len(all_data) |->
                              all_data[i] \o [k \in 1..(width - Len(all_data[i])) |-> NULL]]])

\* scrape_all_teams_roster of csv-creator.py, up to its loop.
CsvStart ==
    /\ family = "csv"
    /\ Begin("csv", SubSeq(TEAM_ABBRS, 1, NumTeams), FALSE)
    /\ csv' = [csv EXCEPT !.all_data = <<>>, !.common_headers = NoRow]
    /\ UNCHANGED <<tables, sqlite_sequence, assigned, setting>>

\* One pass of its loop over TEAM_ABBRS: the request follows the one before
\* with no pause; after the last team the file is written.
CsvTeam(doc) ==
    LET team == work[idx]
        tbl == LocateTable(doc, "roster")
        found == doc.ok /\ tbl.node
        read == IF found THEN RowsData(tbl.tbody) ELSE <<>>
        all_data == csv.all_data \o [i \in 1..Len(read) |-> read[i] \o <<team>>]
        common_headers == IF found /\ csv.common_headers = NoRow
                          THEN tbl.thead \o <<"Team">> ELSE csv.common_headers
        writes == idx = Len(work) /\ all_data /= <<>> /\ common_headers /= NoRow
        df == DataFrame(all_data, common_headers)
    IN  /\ Keep(doc)
        /\ Pace(<<"get">>)
        /\ IF writes /\ ~df.ok
           THEN /\ Advance(Entry(team, IF doc.ok THEN "ok" ELSE "error", "crashed", df.exc, 0))
                /\ csv' = [csv EXCEPT !.all_data = all_data, !.common_headers = common_headers]
           ELSE /\ Advance(IF ~doc.ok THEN Entry(team, "error", "skipped", "Error fetching", 0)
                           ELSE IF ~tbl.node
                           THEN Entry(team, "ok", "skipped", "No roster table found", 0)
                           ELSE Entry(team, "ok", "scraped", "", Len(read)))
                /\ csv' = [all_data |-> all_data, common_headers |-> common_headers,
                           file |-> IF writes THEN <<df.val>> ELSE csv.file]
        /\ UNCHANGED <<tables, sqlite_sequence>>

CsvItem ==
    /\ Running("csv")
    /\ \E doc \in Served(RosterDocs(work[idx])) : CsvTeam(doc)

\* ------------------------------------------------------------- data-base-creator
\* SELECT id FROM players WHERE name = ? AND height = ? AND college = ?
\* AND experience = ?
PartialDuplicate(tbl, v) ==
    \E i \in 1..Len(tbl) :
        /\ SqlEq(tbl[i].name, v.name)
        /\ SqlEq(tbl[i].height, v.height)
        /\ SqlEq(tbl[i].college, v.college)
        /\ SqlEq(tbl[i].experience, v.experience)

\* The body rows of one team's table in the roster loop of
\* data-base-creator.py: the weight is read for the INSERT, after the
\* duplicate check.
RECURSIVE PartialRows(_, _, _, _)
PartialRows(rows, headers, team, db) ==
    IF rows = <<>> \/ db.exc /= NULL THEN db
    ELSE LET row_data == CellTexts(Head(rows).cells)
             v == RosterValues(headers, row_data, team)
             next ==
                 IF row_data = <<>> THEN db
                 ELSE IF PartialDuplicate(db.tbl, v) THEN db
                 ELSE IF ~v.weight.ok THEN [db EXCEPT !.exc = v.weight.exc]
                 ELSE IF v.name = NULL THEN [db EXCEPT !.exc = "IntegrityError"]
                 ELSE [db EXCEPT !.tbl = Append(db.tbl, PlayerRow(db.seq + 1, v)),
                                 !.seq = db.seq + 1]
         IN  PartialRows(Tail(rows), headers, team, next)

\* What the site may serve this script for a team: what it serves the roster
\* driver, and a roster that lists a player of another team, with and
\* without his College cell.
PartialDocs(team) ==
    RosterDocs(team) \cup { Page(<<RosterTable(<<RowSmith>>)>>, <<>>),
                            Page(<<RosterTable(<<RowSmithShort>>)>>, <<>>) }

\* scrape_all_teams_roster of data-base-creator.py, up to its loop.
PartialStart ==
    /\ family = "partial"
    /\ Begin("partial", SubSeq(TEAM_ABBRS, 1, NumTeams), FALSE)
    /\ UNCHANGED <<tables, sqlite_sequence, assigned, setting, csv>>

\* One pass of its loop over TEAM_ABBRS.
PartialTeam(doc) ==
    LET team == work[idx]
        tbl == LocateTable(doc, "roster")
        db == PartialRows(tbl.tbody, tbl.thead, team,
                          [tbl |-> players, seq |-> sqlite_sequence.players, exc |-> NULL])
    IN  /\ Keep(doc)
        /\ IF ~doc.ok
           THEN /\ Advance(Entry(team, "error", "skipped", "Error fetching", 0))
                /\ UNCHANGED <<tables, sqlite_sequence>>
           ELSE IF ~tbl.node
           THEN /\ Advance(Entry(team, "ok", "skipped", "No roster table found", 0))
                /\ UNCHANGED <<tables, sqlite_sequence>>
           ELSE IF db.exc /= NULL
           THEN /\ Advance(Entry(team, "ok", "crashed", db.exc, 0))
                /\ UNCHANGED <<tables, sqlite_sequence>>
           ELSE /\ Advance(Entry(team, "ok", "stored", "", db.seq - sqlite_sequence.players))
                /\ players' = db.tbl
                /\ sqlite_sequence' = [sqlite_sequence EXCEPT !.players = db.seq]
                /\ UNCHANGED <<gamelogs, box_scores, adv_box_scores>>

PartialItem ==
    /\ Running("partial")
    /\ \E doc \in Served(PartialDocs(work[idx])) :
           PartialTeam(doc) /\ sqlite_sequence'.players <= seeded + MaxPlayers
    /\ Pace(<<"sleep", "get">>)
    /\ UNCHANGED csv

\* ------------------------------------------------------------- behaviours
\* The scripts of one behaviour are those of one family: the players scripts,
\* the schedule script with the two box-score scripts, the csv script, or
\* the roster script of data-base-creator.py.
Scripts ==
    /\ gamelogs = <<>>
    /\ box_scores = <<>>
    /\ adv_box_scores = <<>>
    /\ driver = "none"
    /\ work = <<>>
    /\ idx = 1
    /\ status = "idle"
    /\ fetched = <<>>
    /\ replay = FALSE
    /\ outcome = <<>>
    /\ wire = "rested"
    /\ csv = NoCsv
    /\ family \in {"players", "games", "csv", "partial"}

\* A store freshly created.
Start ==
    /\ Scripts
    /\ players = <<>>
    /\ sqlite_sequence = [players |-> 0, gamelogs |-> 0, box_scores |-> 0, adv_box_scores |-> 0]
    /\ assigned = {}
    /\ seeded = 0

Init == Start /\ recording = FALSE

\* The behaviours in which a driver may be rerun on the pages it was served.
InitRerun == Start /\ recording = TRUE

\* A store in which earlier runs left MaxSuffix players of one stem, each
\* with the url of its counter value.
Crowd ==
    [i \in 1..MaxSuffix |->
        [PlayerRow(i, [name |-> "Al Smith", team |-> TEAM_ABBRS[1], position |-> "PG",
                       height |-> "6-1", weight |-> FloatOr0("190"),
                       birth_date |-> "January 1, 2000", birth_country |-> "us",
                       experience |-> "3", college |-> "College " \o Decimal(i)])
            EXCEPT !.url = CandidateUrl(Stem(Split("Al Smith")), i)]]

InitCrowded ==
    /\ Scripts
    /\ family = "players"
    /\ players = Crowd
    /\ sqlite_sequence = [players |-> MaxSuffix, gamelogs |-> 0, box_scores |-> 0,
                          adv_box_scores |-> 0]
    /\ assigned = {<<Crowd[i].id, Crowd[i].url>> : i \in 1..MaxSuffix}
    /\ seeded = MaxSuffix
    /\ recording = FALSE

Next ==
    \/ \E rp \in BOOLEAN : RosterStart(rp)
    \/ RosterItem
    \/ generate_player_urls
    \/ StatsStart
    \/ StatsItem
    \/ remove_duplicates
    \/ \E rp \in BOOLEAN : ScheduleStart(rp)
    \/ ScheduleItem
    \/ \E rp \in BOOLEAN : BoxStart("basic", rp)
    \/ BoxItem
    \/ \E rp \in BOOLEAN : BoxStart("advanced", rp)
    \/ AdvancedItem
    \/ CsvStart
    \/ CsvItem
    \/ PartialStart
    \/ PartialItem

Spec == Init /\ [][Next]_vars

SpecRerun == InitRerun /\ [][Next]_vars

\* The scripts that create players and give them urls.
NextCrowded ==
    \/ RosterStart(FALSE)
    \/ RosterItem
    \/ generate_player_urls
    \/ remove_duplicates

SpecCrowded == InitCrowded /\ [][NextCrowded]_vars

\* ------------------------------------------------------------- properties
\* The natural keys of the game and the box-score tables.
GameKey(r) == <<r.game_date, r.visitor_team, r.home_team>>
LineKey(r) == <<r.box_score_link, r.team, r.player_name>>

\* Every row of old is a row of new, at its place and unchanged.
KeptIn(old, new) == Len(old) <= Len(new) /\ \A i \in 1..Len(old) : new[i] = old[i]

\* The value of a numeric column of a stored box-score row.
Stat(r, cols, col) == r.stats[CHOOSE k \in 1..Len(cols) : cols[k].col = col]

SiteLinkA == "https://www.basketball-reference.com/boxscores/202410220BOS.html"

\* C1: a driver run again on the pages it was served the first time inserts
\* no row: during the second run no table changes.
RerunInsertsNothing == [][replay' => UNCHANGED tables]_vars

\* C2: no two stored players have the same values in all nine key columns.
PlayerKeysDistinct ==
    \A i, j \in 1..Len(players) : i /= j => Key(players[i]) /= Key(players[j])

\* C3: no two stored games have the same (game_date, visitor_team, home_team).
GameKeysDistinct ==
    \A i, j \in 1..Len(gamelogs) : i /= j => GameKey(gamelogs[i]) /= GameKey(gamelogs[j])

\* C3: a game stored from the first month's page and, after it, a game from
\* the second month's page, which lists the first game again, twice.
GameMetAgain ==
    /\ Len(gamelogs) = 2
    /\ gamelogs[1].month = "October"
    /\ gamelogs[2].month = "November"

\* C4: the basic and the advanced box-score table each hold at most one row
\* per (box_score_link, team, player_name).
LineKeysDistinct ==
    /\ \A i, j \in 1..Len(box_scores) :
           i /= j => LineKey(box_scores[i]) /= LineKey(box_scores[j])
    /\ \A i, j \in 1..Len(adv_box_scores) :
           i /= j => LineKey(adv_box_scores[i]) /= LineKey(adv_box_scores[j])

\* C4: both tables hold the rows of a page that lists a player twice: his
\* one row has the values listed first.
LineMetTwice ==
    /\ \E i \in 1..Len(box_scores) :
           /\ box_scores[i].player_name = "Jalen Brunson"
           /\ Stat(box_scores[i], BasicCols, "pts") = 30
    /\ \E i \in 1..Len(adv_box_scores) :
           /\ adv_box_scores[i].player_name = "Jalen Brunson"
           /\ Stat(adv_box_scores[i], AdvancedCols, "usg_pct") = 31500

\* C5: the page with the one example row, taken into an empty table, leaves
\* one row with 109 and 132 points and the site's address before the href;
\* taken in when the game is stored, it leaves the table as it is.
ExampleRowOnce ==
    [][(Running("schedule") /\ ScheduleMonth(Page(<<ScheduleTable(<<GameA>>)>>, <<>>)))
          => /\ gamelogs = <<>>
                  => /\ Len(gamelogs') = 1
                     /\ gamelogs'[1].visitor_pts = 109
                     /\ gamelogs'[1].home_pts = 132
                     /\ gamelogs'[1].box_score_link = SiteLinkA
             /\ (\E i \in 1..Len(gamelogs) : gamelogs[i].box_score_link = SiteLinkA)
                  => gamelogs' = gamelogs]_vars

\* C5: the example row is the one stored game, and the page that lists it
\* was taken in once more, inserting nothing.
ExampleTakenAgain ==
    /\ Len(gamelogs) = 1
    /\ gamelogs[1].visitor_pts = 109
    /\ gamelogs[1].home_pts = 132
    /\ gamelogs[1].box_score_link = SiteLinkA
    /\ driver = "schedule"
    /\ outcome = <<Entry(YearMonth(1), "ok", "stored", "Inserted new games", 0)>>

\* C6: no step changes or removes a stored game or box-score row, and the
\* pages that list a stored key again with other values are taken in
\* without the run ending.
FirstWriteWins ==
    [][/\ KeptIn(gamelogs, gamelogs')
       /\ KeptIn(box_scores, box_scores')
       /\ KeptIn(adv_box_scores, adv_box_scores')
       /\ (Running("schedule") /\ ScheduleMonth(SchedulePage(work[idx])))
              => status' /= "aborted"
       /\ (Running("basic") /\ BoxLink(BoxRepeat)) => status' /= "aborted"
       /\ (Running("advanced") /\ AdvancedLink(BoxRepeat)) => status' /= "aborted"]_vars

\* C6: the game stored first still has its points after the page with other
\* points for it was taken in, and so has the box-score row stored first.
FirstWriteKept ==
    /\ \E i, j \in 1..Len(gamelogs) :
           /\ i < j
           /\ gamelogs[i].visitor_pts = 109
           /\ gamelogs[j].month = "November"
    /\ \E i, j \in 1..Len(box_scores) :
           /\ i < j
           /\ box_scores[i].player_name = "Jalen Brunson"
           /\ Stat(box_scores[i], BasicCols, "pts") = 22
           /\ box_scores[j].player_name = "Josh Hart"
           /\ box_scores[j].box_score_link = box_scores[i].box_score_link

\* C7: the urls of the stored players that have one are pairwise distinct.
UrlsDistinct ==
    \A i, j \in 1..Len(players) :
        (i /= j /\ players[i].url /= NULL) => players[i].url /= players[j].url

\* C7: two players whose names give the same first candidate have urls, one
\* with counter 01 and one with counter 02.
UrlCollisionResolved ==
    \E i, j \in 1..Len(players) :
        /\ players[i].url = "https://www.basketball-reference.com/players/s/smithal01.html"
        /\ players[j].url = "https://www.basketball-reference.com/players/s/smithal02.html"

\* C8: a row that was given a url still has it as long as it is stored, and
\* a url once given to a row is never given to another one.
UrlNeverReassigned ==
    /\ \A p \in assigned : \A i \in 1..Len(players) :
           players[i].id = p[1] => players[i].url = p[2]
    /\ \A p, q \in assigned : p[2] = q[2] => p[1] = q[1]

\* All MaxSuffix candidates of a name are urls of stored players.
Exhausted(name) ==
    /\ Len(Split(name)) >= 2
    /\ \A n \in 1..MaxSuffix :
           \E i \in 1..Len(players) : players[i].url = CandidateUrl(Stem(Split(name)), n)

\* C9: a url pass that finds every candidate of a player taken prints a line
\* for that player.
ExhaustionReported ==
    driver = "urls" =>
        \A k \in 1..Len(outcome) : \A i \in 1..Len(players) :
            (players[i].id = outcome[k].item /\ players[i].url = NULL
                 /\ Exhausted(players[i].name))
                => outcome[k].msg /= ""

\* A page that gives a driver nothing to read: the request failed, or the
\* table of that id is in neither the live tree nor a comment.
Failing(doc, id) == ~doc.ok \/ ~LocateTable(doc, id).node

\* A box-score page that gives nothing: the request failed, or no table of
\* the script's kind is in the live tree.
FailingBox(doc, kind) ==
    ~doc.ok \/ \A t \in 1..Len(doc.live) :
                   ~StartsWith(doc.live[t].id, "box-") \/ ~EndsWith(doc.live[t].id, kind.suffix)

\* The pass of a loop over an item that failed: the item is skipped, nothing
\* is stored, and the loop is at the next item or, after the last, done.
Skipped ==
    /\ idx' = idx + 1
    /\ status' = IF idx = Len(work) THEN "done" ELSE "running"
    /\ outcome'[1].item = work[idx]
    /\ outcome'[1].result = "skipped"
    /\ UNCHANGED <<tables, driver, work>>

\* C10: in every driver the pass over an item whose request failed or whose
\* table is missing skips the item and goes on, no item is passed twice, and
\* a run is done only when it is past every item of its work list.
FailureSkipsItem ==
    /\ [](status = "done" => idx = Len(work) + 1)
    /\ [][/\ status = "running" => idx' = idx + 1 /\ UNCHANGED <<driver, work>>
          /\ (Running("roster") /\ \E doc \in RosterDocs(work[idx]) :
                  Failing(doc, "roster") /\ RosterTeam(doc)) => Skipped
          /\ (Running("schedule") /\ \E doc \in ScheduleDocs(work[idx]) :
                  Failing(doc, "schedule") /\ ScheduleMonth(doc)) => Skipped
          /\ (Running("stats") /\ Truthy(work[idx]) /\ \E doc \in StatsDocs :
                  Failing(doc, "per_game_stats") /\ StatsPlayer(doc)) => Skipped
          /\ (Running("basic") /\ \E doc \in BoxDocs(work[idx]) :
                  FailingBox(doc, Basic) /\ BoxLink(doc)) => Skipped
          /\ (Running("advanced") /\ \E doc \in BoxDocs(work[idx]) :
                  FailingBox(doc, Advanced) /\ AdvancedLink(doc)) => Skipped]_vars

\* C10: a roster run is done, the first team's page having failed and the
\* second team's roster being stored.
RunDoneAfterFailure ==
    /\ driver = "roster"
    /\ status = "done"
    /\ idx = Len(work) + 1
    /\ Len(players) = 1
    /\ players[1].team = TEAM_ABBRS[2]

\* Pages with a numeric cell that is there and holds no number: a weight, the
\* points of a game, a games-played cell, the points and a percentage of a line.
RosterBad == Page(<<RosterTable(<<RowSmith, RowBadWt>>)>>, <<>>)
ScheduleBad == Page(<<ScheduleTable(<<GameShort, GameB, GameBad>>)>>, <<>>)
StatsBad ==
    Page(<<>>, << <<Table("per_game_stats", NULL, StatsHead,
                          <<TextRow(<<"2024-25", "24", "Did Not Play">>)>>)>> >>)

\* The rows a step added to a table.
Added(old, new) == {new[i] : i \in (Len(old) + 1)..Len(new)}

\* The pass over the current item reports a failure and the loop is at the
\* next item or, after the last, done.
FailedLocally ==
    /\ idx' = idx + 1
    /\ status' = IF idx = Len(work) THEN "done" ELSE "running"
    /\ outcome'[1].msg /= ""

\* C11: in every driver the pass over an item with a numeric cell that holds
\* no number reports a failure, stores no row for the row of that cell, and
\* the run goes on with the next item.
MalformedCellIsLocal ==
    [][/\ (Running("roster") /\ RosterTeam(RosterBad))
              => FailedLocally /\ \A r \in Added(players, players') : r.name /= "Bo Li"
       /\ (Running("schedule") /\ ScheduleMonth(ScheduleBad))
              => FailedLocally
                 /\ \A r \in Added(gamelogs, gamelogs') : r.game_date /= "Fri, Oct 25, 2024"
       /\ (Running("stats") /\ Truthy(work[idx]) /\ StatsPlayer(StatsBad))
              => FailedLocally /\ UNCHANGED players
       /\ (Running("basic") /\ BoxLink(BoxBad))
              => FailedLocally
                 /\ \A r \in Added(box_scores, box_scores') : r.player_name /= "Josh Hart"
       /\ (Running("advanced") /\ AdvancedLink(BoxBad))
              => FailedLocally
                 /\ \A r \in Added(adv_box_scores, adv_box_scores') : r.player_name /= "Josh Hart"]_vars

\* The tables of a sequence of comments, in document order.
RECURSIVE Uncommented(_)
Uncommented(comments) ==
    IF comments = <<>> THEN <<>> ELSE Head(comments) \o Uncommented(Tail(comments))

\* The page with its commented-out tables in the live tree, after the live ones.
Shown(doc) == IF doc.ok THEN Page(doc.live \o Uncommented(doc.comments), <<>>) ELSE doc

\* C12: in every driver the pass over a page takes the state where the pass
\* over the same page with its commented-out tables in the live tree takes
\* it; for the stats driver, both pages give the same headers and latest row.
CommentTransparent ==
    [][/\ Running("roster") =>
              \A doc \in RosterDocs(work[idx]) : RosterTeam(doc) => RosterTeam(Shown(doc))
       /\ Running("schedule") =>
              \A doc \in ScheduleDocs(work[idx]) : ScheduleMonth(doc) => ScheduleMonth(Shown(doc))
       /\ (Running("stats") /\ Truthy(work[idx])) =>
              \A doc \in StatsDocs :
                  StatsPlayer(doc) => get_player_stats(Shown(doc)) = get_player_stats(doc)
       /\ Running("basic") =>
              \A doc \in BoxDocs(work[idx]) : BoxLink(doc) => BoxLink(Shown(doc))
       /\ Running("advanced") =>
              \A doc \in BoxDocs(work[idx]) : AdvancedLink(doc) => AdvancedLink(Shown(doc))]_vars

\* A name the row extractors may return: not empty, without "Totals", and
\* not the name cell of the repeated header row of the pages.
PlayerLineName(name) ==
    Truthy(name) /\ ~Contains(name, "Totals") /\ name /= FindCell(Reserves.cells, "player").text

\* C13: every stored basic or advanced box-score row has a name that is not
\* empty and does not contain "Totals", and none is the repeated header row.
LinesArePlayers ==
    /\ \A i \in 1..Len(box_scores) : PlayerLineName(box_scores[i].player_name)
    /\ \A i \in 1..Len(adv_box_scores) : PlayerLineName(adv_box_scores[i].player_name)

\* C13: both scripts took in the page that has a header row, a nameless row
\* and a totals row next to the one player row: that row alone is stored.
HeaderAndTotalsPassedOver ==
    /\ Len(box_scores) = 1
    /\ Stat(box_scores[1], BasicCols, "fg") = 8
    /\ Len(adv_box_scores) = 1
    /\ Stat(adv_box_scores[1], AdvancedCols, "ts_pct") = 574
    /\ outcome = <<Entry(SiteLinkA, "ok", "stored", "Inserted advanced player lines", 1)>>

\* v is the number a stat cell stands for: zero when the cell is absent or
\* its text is empty.
Stands(v, cells, c) ==
    LET cell == FindCell(cells, c.stat)
        read == IF c.type = "int" THEN ParseInt(cell.text) ELSE ParseFloat(cell.text)
    IN  IF ~cell.node \/ cell.text = "" THEN v = 0 ELSE read.ok /\ v = read.val

\* Every row of the table was read from a row some page of its link lists in
\* a table of the kind, and has in each numeric column what the cell of
\* that row stands for.
ZeroFilled(tbl, kind) ==
    \A i \in 1..Len(tbl) :
        \E doc \in BoxDocs(tbl[i].box_score_link) : \E t \in 1..Len(doc.live) :
            /\ EndsWith(doc.live[t].id, kind.suffix)
            /\ \E j \in 1..Len(doc.live[t].tbody) :
                   LET row == doc.live[t].tbody[j]
                   IN  /\ FindCell(row.cells, "player") = [node |-> TRUE, text |-> tbl[i].player_name]
                       /\ \A k \in 1..Len(kind.cols) :
                              Stands(tbl[i].stats[k], row.cells, kind.cols[k])

StatColumnsNeverNull ==
    \A i \in 1..Len(players) :
        /\ players[i].stats /= NoStats
        /\ Len(players[i].stats) = Len(desired_stats) - 1

\* ------------------------------------------------------------- coercion alone
\* The largest whole number a numeric cell is tried with.
MaxWhole == 12

\* The texts a numeric cell is tried with: a sign or none, digits or none, a
\* fraction or none.
CellInputs ==
    {sg \o ip \o fp : sg \in {"", "-", "+"},
                      ip \in {""} \cup {Decimal(n) : n \in 0..MaxWhole},
                      fp \in {"", ".", ".5", ".50", ".05", ".455"}}

\* One numeric cell of a row, absent or with a text, of an int and of a
\* float column: the behaviour starts with the row, and its one step reads
\* the cell as the table parsers do.
InitCoerce ==
    /\ family = "coerce"
    /\ players = <<>>
    /\ gamelogs = <<>>
    /\ box_scores = <<>>
    /\ adv_box_scores = <<>>
    /\ sqlite_sequence = [players |-> 0, gamelogs |-> 0, box_scores |-> 0, adv_box_scores |-> 0]
    /\ assigned = {}
    /\ seeded = 0
    /\ recording = FALSE
    /\ replay = FALSE
    /\ fetched = <<>>
    /\ outcome = <<>>
    /\ wire = "rested"
    /\ csv = NoCsv
    /\ driver = "coerce"
    /\ status = "running"
    /\ idx = 1
    /\ \E c \in {BasicCols[1], BasicCols[3]} :
           work \in {<<[cells |-> cells, col |-> c]>> :
                        cells \in {<<>>} \cup {<<Cell(c.stat, text, NULL)>> : text \in CellInputs}}

CoerceCell ==
    LET v == Coerce(work[idx].cells, work[idx].col)
    IN  /\ Running("coerce")
        /\ outcome' = <<Entry(work[idx], "none", IF v.ok THEN "coerced" ELSE "raised",
                              IF v.ok THEN "" ELSE v.exc, IF v.ok THEN v.val ELSE 0)>>
        /\ idx' = idx + 1
        /\ status' = IF v.ok THEN "done" ELSE "aborted"
        /\ UNCHANGED <<tables, sqlite_sequence, driver, work, fetched, replay, assigned, setting,
                       wire, csv>>

SpecCoerce == InitCoerce /\ [][CoerceCell]_vars

\* str(n) of an int
IntText(n) == IF n < 0 THEN "-" \o Decimal(-n) ELSE Decimal(n)

\* The thousandths as digits, without the zeros at the end.
MilliText(m) ==
    IF m % 100 = 0 THEN Decimal(m \div 100)
    ELSE IF m % 10 = 0 THEN Digits[(m \div 100) + 1] \o Decimal((m \div 10) % 10)
    ELSE Digits[(m \div 100) + 1] \o Digits[((m \div 10) % 10) + 1] \o Decimal(m % 10)

\* str(x) of a float held in thousandths: "0.455", "31.5", "22.0"
FloatText(v) ==
    (IF v < 0 THEN "-" ELSE "")
        \o Decimal((IF v < 0 THEN -v ELSE v) \div FloatScale) \o "."
        \o MilliText((IF v < 0 THEN -v ELSE v) % FloatScale)

\* The number as Python writes it, in a cell of the column.
Rendered(n, c) == <<Cell(c.stat, IF c.type = "int" THEN IntText(n) ELSE FloatText(n), NULL)>>

\* C16: the number a numeric cell gave (the cell absent, empty or holding a
\* number) is the number its own text gives when read as a cell again.
RoundTripStable ==
    (driver = "coerce" /\ status = "done") =>
        Coerce(Rendered(outcome[1].n, work[1].col), work[1].col) = Ok(outcome[1].n)

\* C16: the percentage ".455" was read as 0.455, whose text is "0.455".
FractionRead ==
    /\ driver = "coerce"
    /\ status = "done"
    /\ work[1].cells = <<Cell("fg_pct", ".455", NULL)>>
    /\ outcome[1].n = 455
    /\ Rendered(outcome[1].n, work[1].col)[1].text = "0.455"

\* C17: in no run of a driver is a request made right after another one,
\* with no pause between the two.
NeverBackToBack == wire /= "hasty"

\* C18: the step in which a run ends on an exception removes and changes no
\* stored row: what the items before it stored is still there.
AbortKeepsCompleted ==
    [][status' = "aborted"
           => /\ KeptIn(players, players')
              /\ KeptIn(gamelogs, gamelogs')
              /\ KeptIn(box_scores, box_scores')
              /\ KeptIn(adv_box_scores, adv_box_scores')]_vars

\* C18: a roster run stored the first team's player and ended on an
\* exception at the second team, or a schedule run stored the first month's
\* game and ended at the second month.
AbortedAfterStored ==
    /\ status = "aborted"
    /\ idx = 3
    /\ \/ driver = "roster" /\ Len(players) = 1 /\ players[1].team = work[1]
       \/ driver = "schedule" /\ Len(gamelogs) = 1 /\ gamelogs[1].month = "October"

\* C19: a step that changes the season or a stat column of a stored player
\* is a step of the stats driver on a row that has a url; a step that
\* changes the url of a stored player is the url pass giving one to a row
\* that had none; and a row that appears is a row of a roster script, with
\* neither url nor stats.
LifecycleOrder ==
    [][/\ \A i \in 1..Len(players) : \A j \in 1..Len(players') :
              players'[j].id = players[i].id =>
                  /\ (players'[j].stats /= players[i].stats \/ players'[j].season /= players[i].season)
                         => driver' = "stats" /\ players[i].url /= NULL
                  /\ players'[j].url /= players[i].url
                         => driver' = "urls" /\ players[i].url = NULL
       /\ \A j \in 1..Len(players') :
              (\A i \in 1..Len(players) : players[i].id /= players'[j].id)
                  => /\ driver' \in {"roster", "partial"}
                     /\ players'[j].url = NULL
                     /\ players'[j].stats = NoStats
                     /\ players'[j].season = NULL]_vars

\* C19: one player has a url and the stats of a season, while another, put
\* in after the url pass, has neither.
EnrichedNextToNew ==
    \E i, j \in 1..Len(players) :
        /\ players[i].url /= NULL
        /\ players[i].season = "2024-25"
        /\ players[i].stats /= NoStats
        /\ players[j].url = NULL
        /\ players[j].stats = NoStats

\* The key of a candidate record and of a stored row of a kind of table,
\* and the row a candidate is stored as.
CandidateKey(kind, v) ==
    IF kind = "player"
    THEN <<v.name, v.team, v.position, v.height, v.weight.val, v.birth_date,
           v.birth_country, v.experience, v.college>>
    ELSE IF kind = "game" THEN GameKey(v) ELSE LineKey(v)
StoredKey(kind, r) ==
    IF kind = "player" THEN Key(r) ELSE IF kind = "game" THEN GameKey(r) ELSE LineKey(r)
StoredAs(kind, id, v) ==
    IF kind = "player" THEN PlayerRow(id, v)
    ELSE IF kind = "game" THEN GameRow(id, v) ELSE [id |-> id] @@ v

\* The store that keeps, of the candidates in order, the first one of each
\* key and nothing else.
RECURSIVE FirstSeen(_, _, _)
FirstSeen(kind, candidates, db) ==
    IF candidates = <<>> THEN db
    ELSE FirstSeen(kind, Tail(candidates),
             IF \E i \in 1..Len(db.tbl) :
                    StoredKey(kind, db.tbl[i]) = CandidateKey(kind, Head(candidates))
             THEN db
             ELSE [tbl |-> Append(db.tbl, StoredAs(kind, db.seq + 1, Head(candidates))),
                   seq |-> db.seq + 1])

\* The candidate records of a roster page and of a schedule page.
RosterCandidates(doc, team) ==
    LET tbl == LocateTable(doc, "roster")
        texts == RowsData(tbl.tbody)
    IN  [i \in 1..Len(texts) |-> RosterValues(tbl.thead, texts[i], team)]
GameCandidates(doc, ym) ==
    LET rows == SelectSeq(BodyRows(LocateTable(doc, "schedule").tbody),
                          LAMBDA row : Len(row.cells) >= 9)
    IN  [i \in 1..Len(rows) |-> GameValues(rows[i].cells, ym)]

\* C20: the check-then-insert of the roster and the schedule driver and the
\* insert-or-ignore of the box-score drivers leave, of the candidate records
\* of a page, the first one of each key next to the rows stored before.
FirstRecordPerKey ==
    [][/\ Running("roster") =>
              \A doc \in RosterDocs(work[idx]) :
                  (RosterTeam(doc) /\ outcome'[1].result = "stored") =>
                      players' = FirstSeen("player", RosterCandidates(doc, work[idx]),
                                     [tbl |-> players, seq |-> sqlite_sequence.players]).tbl
       /\ Running("schedule") =>
              \A doc \in ScheduleDocs(work[idx]) :
                  (ScheduleMonth(doc) /\ outcome'[1].result = "stored") =>
                      gamelogs' = FirstSeen("game", GameCandidates(doc, work[idx]),
                                      [tbl |-> gamelogs, seq |-> sqlite_sequence.gamelogs]).tbl
       /\ Running("basic") =>
              \A doc \in BoxDocs(work[idx]) :
                  (BoxLink(doc) /\ outcome'[1].result = "stored") =>
                      box_scores' = FirstSeen("line", ScrapeTables(doc.live, work[idx], Basic).val,
                                        [tbl |-> box_scores, seq |-> sqlite_sequence.box_scores]).tbl
       /\ Running("advanced") =>
              \A doc \in BoxDocs(work[idx]) :
                  (AdvancedLink(doc) /\ outcome'[1].result = "stored") =>
                      adv_box_scores' =
                          FirstSeen("line", ScrapeTables(doc.live, work[idx], Advanced).val,
                              [tbl |-> adv_box_scores, seq |-> sqlite_sequence.adv_box_scores]).tbl]_vars

\* The cells of a row in the opposite order, and without the k-th one.
Reversed(cells) == [i \in 1..Len(cells) |-> cells[Len(cells) + 1 - i]]
Without(cells, k) == SubSeq(cells, 1, k - 1) \o SubSeq(cells, k + 1, Len(cells))

\* The page with the cells of every body row in the opposite order, each
\* cell as it was.
MirroredRows(rows) ==
    IF rows = Absent THEN rows
    ELSE [i \in 1..Len(rows) |-> [rows[i] EXCEPT !.cells = Reversed(@)]]
MirroredTables(tbls) ==
    [t \in 1..Len(tbls) |-> [tbls[t] EXCEPT !.tbody = MirroredRows(@)]]
Mirrored(doc) ==
    IF doc.ok
    THEN Page(MirroredTables(doc.live),
              [c \in 1..Len(doc.comments) |-> MirroredTables(doc.comments[c])])
    ELSE doc

\* The record of a box-score row agrees with the record of the row without
\* its k-th cell in every field but the one that cell is the source of.
SameButFor(row, k, kind) ==
    LET d == RowDict(row, "", "", kind.cols)
        e == RowDict([row EXCEPT !.cells = Without(@, k)], "", "", kind.cols)
        stat == row.cells[k].stat
    IN  /\ e.player_name = d.player_name
        /\ e.starter = d.starter
        /\ stat /= "mp" => e.mp = d.mp
        /\ \A j \in 1..Len(kind.cols) : kind.cols[j].stat /= stat => e.stats[j] = d.stats[j]

\* The rows of the tables of a page that a box-score script reads.
LineRows(doc, kind) ==
    UNION {{doc.live[t].tbody[j] : j \in 1..Len(doc.live[t].tbody)} :
               t \in {u \in 1..Len(doc.live) : EndsWith(doc.live[u].id, kind.suffix)}}

\* C21: in every driver the pass over a page takes the state where the pass
\* over the same page with the cells of each row in another order takes it
\* (for the stats driver: both pages give the UPDATE the same values), and a
\* box-score row without one of its stat cells gives the other fields the
\* values it gave with it.
CellOrderIrrelevant ==
    [][/\ Running("roster") =>
              \A doc \in RosterDocs(work[idx]) : RosterTeam(doc) => RosterTeam(Mirrored(doc))
       /\ Running("schedule") =>
              \A doc \in ScheduleDocs(work[idx]) :
                  ScheduleMonth(doc) => ScheduleMonth(Mirrored(doc))
       /\ (Running("stats") /\ Truthy(work[idx])) =>
              \A doc \in StatsDocs :
                  (StatsPlayer(doc) /\ outcome'[1].result = "stored") =>
                      LET got == get_player_stats(Mirrored(doc))
                      IN  /\ StatText(got.headers, got.latest_row, "Season") = StatsOf[doc].season
                          /\ StatValues(got.headers, got.latest_row) = StatsOf[doc].values
       /\ Running("basic") =>
              \A doc \in BoxDocs(work[idx]) :
                  BoxLink(doc) =>
                      /\ BoxLink(Mirrored(doc))
                      /\ \A row \in LineRows(doc, Basic) : \A k \in 1..Len(row.cells) :
                             row.cells[k].stat /= "player" => SameButFor(row, k, Basic)
       /\ Running("advanced") =>
              \A doc \in BoxDocs(work[idx]) :
                  AdvancedLink(doc) =>
                      /\ AdvancedLink(Mirrored(doc))
                      /\ \A row \in LineRows(doc, Advanced) : \A k \in 1..Len(row.cells) :
                             row.cells[k].stat /= "player" => SameButFor(row, k, Advanced)]_vars

\* The text of the k-th cell of a row as a free-text column holds it: None
\* when the row has no such cell.
TextAt(cells, k) == IF k <= Len(cells) THEN cells[k].text ELSE NULL

\* The text of the cell of that key, None when the row has none.
TextOf(cells, stat) == IF FindCell(cells, stat).node THEN FindCell(cells, stat).text ELSE NULL

\* The body rows of the table of that id on the pages of a set.
SourceRows(docs, id) ==
    UNION {{LocateTable(doc, id).tbody[j] : j \in 1..Len(LocateTable(doc, id).tbody)} :
               doc \in {d \in docs : d.ok /\ LocateTable(d, id).node}}

\* C22: every stored row has its free-text columns as a row of a page of
\* its item gives them: the text of the cell, the empty text of an empty
\* cell, and NULL where the row has no such cell.
FreeTextAsRead ==
    /\ \A i \in 1..Len(gamelogs) :
           \E k \in 1..NumMonths : \E row \in SourceRows(ScheduleDocs(YearMonth(k)), "schedule") :
               /\ row /= NoNode
               /\ gamelogs[i].season_year = YearMonth(k).year
               /\ gamelogs[i].month = Capitalize(YearMonth(k).month)
               /\ gamelogs[i].game_date = TextAt(row.cells, 1)
               /\ gamelogs[i].start_et = TextAt(row.cells, 2)
               /\ gamelogs[i].visitor_team = TextAt(row.cells, 3)
               /\ gamelogs[i].home_team = TextAt(row.cells, 5)
               /\ gamelogs[i].overtime = TextAt(row.cells, 8)
               /\ gamelogs[i].attendance = TextAt(row.cells, 9)
               /\ gamelogs[i].notes = TextAt(row.cells, 10)
    /\ \A i \in 1..Len(box_scores) :
           \E doc \in BoxDocs(box_scores[i].box_score_link) : \E row \in LineRows(doc, Basic) :
               /\ box_scores[i].player_name = TextOf(row.cells, "player")
               /\ box_scores[i].mp = TextOf(row.cells, "mp")
    /\ \A i \in 1..Len(adv_box_scores) :
           \E doc \in BoxDocs(adv_box_scores[i].box_score_link) :
               \E row \in LineRows(doc, Advanced) :
                   /\ adv_box_scores[i].player_name = TextOf(row.cells, "player")
                   /\ adv_box_scores[i].mp = TextOf(row.cells, "mp")
    /\ \A i \in 1..Len(players) :
           /\ \E row \in SourceRows(RosterDocs(players[i].team), "roster") :
                  /\ players[i].name = TextAt(row.cells, 2)
                  /\ players[i].position = TextAt(row.cells, 3)
                  /\ players[i].height = TextAt(row.cells, 4)
                  /\ players[i].birth_date = TextAt(row.cells, 6)
                  /\ players[i].birth_country = TextAt(row.cells, 7)
                  /\ players[i].experience = TextAt(row.cells, 8)
                  /\ players[i].college = TextAt(row.cells, 9)
           /\ players[i].season /= NULL =>
                  \E row \in SourceRows(StatsDocs, "per_game_stats") :
                      players[i].season = TextAt(row.cells, 1)

\* C23: a row the url pass gives a url gets the candidate of its name with
\* the smallest counter from 1 to MaxSuffix that no row had as its url when
\* the pass came to it: every smaller counter's candidate is the url of a
\* row that had it before the pass or got it earlier in the pass.
SmallestFreeCounter ==
    [][generate_player_urls =>
          \A i \in 1..Len(players) :
              (players[i].url = NULL /\ players'[i].url /= NULL) =>
                  LET stem == Stem(Split(players[i].name))
                      Taken(u) == \E j \in 1..Len(players) :
                                      /\ players'[j].url = u
                                      /\ players[j].url /= NULL \/ j < i
                  IN  \E n \in 1..MaxSuffix :
                          /\ players'[i].url = CandidateUrl(stem, n)
                          /\ ~Taken(CandidateUrl(stem, n))
                          /\ \A m \in 1..(n - 1) : Taken(CandidateUrl(stem, m))]_vars

\* C23: the url pass gave a player the candidate with counter 02, the one
\* with counter 01 being the url of a player of an earlier pass.
SecondCounterGiven ==
    /\ driver = "urls"
    /\ \E i, j \in 1..Len(players) :
           /\ players[i].url = CandidateUrl(Stem(Split(players[j].name)), 1)
           /\ players[j].url = CandidateUrl(Stem(Split(players[j].name)), 2)
           /\ outcome = <<Entry(players[j].id, "none", "assigned", "", 0)>>

\* ------------------------------------------------------------- construct_url alone
\* The longest first name and the longest last name a url is built from.
MaxFirst == 3
MaxLast == 6

\* construct_url of csv-creator.py: the candidate with counter 01, whatever
\* urls there are.
construct_url_csv(player_name) ==
    IF Len(Split(player_name)) < 2 THEN NULL
    ELSE CandidateUrl(Stem(Split(player_name)), 1)

\* One name of one, two or three parts and the urls there are, none or the
\* first candidate of the name: the behaviour starts with them, and its one
\* step builds the url as the url pass does for a row.
InitSlug ==
    /\ family = "slug"
    /\ players = <<>>
    /\ gamelogs = <<>>
    /\ box_scores = <<>>
    /\ adv_box_scores = <<>>
    /\ sqlite_sequence = [players |-> 0, gamelogs |-> 0, box_scores |-> 0, adv_box_scores |-> 0]
    /\ assigned = {}
    /\ seeded = 0
    /\ recording = FALSE
    /\ replay = FALSE
    /\ fetched = <<>>
    /\ outcome = <<>>
    /\ wire = "rested"
    /\ csv = NoCsv
    /\ driver = "slug"
    /\ status = "running"
    /\ idx = 1
    /\ \E f \in 1..MaxFirst, l \in 0..MaxLast, mid \in {" ", " Van "}, taken \in BOOLEAN :
           LET player_name == IF l = 0 THEN Prefix("Giannis", f)
                              ELSE Prefix("Giannis", f) \o mid \o Prefix("Antetokounmpo", l)
           IN  work = <<[player_name |-> player_name,
                         existing_urls |-> IF taken THEN {construct_url_csv(player_name)} \ {NULL}
                                           ELSE {}]>>

ConstructUrl ==
    LET url == construct_url(work[idx].player_name, work[idx].existing_urls)
    IN  /\ Running("slug")
        /\ assigned' = IF url = NULL THEN {} ELSE {<<0, url>>}
        /\ outcome' = <<Entry(work[idx].player_name, "none",
                              IF url = NULL THEN "unassigned" ELSE "assigned", "", 0)>>
        /\ idx' = idx + 1
        /\ status' = "done"
        /\ UNCHANGED <<tables, sqlite_sequence, driver, work, fetched, replay, setting, wire, csv>>

SpecSlug == InitSlug /\ [][ConstructUrl]_vars

\* The file name of a player url, without its ".html".
Slug(url) ==
    SubSeq(url, Len("https://www.basketball-reference.com/players/") + 3, Len(url) - Len(".html"))

\* C24: the url built for a name of two parts or more has a file name of
\* nine characters: five of the last name, completed from the start of the
\* first name, two of the first name, and two digits; the csv script builds
\* the same with the digits 01.
SlugShape ==
    (driver = "slug" /\ status = "done" /\ Len(Split(work[1].player_name)) >= 2) =>
        LET parts == Split(work[1].player_name)
            first_name == parts[1]
            last_name == parts[Len(parts)]
        IN  \E p \in assigned :
                /\ Len(Slug(p[2])) = 9
                /\ SubSeq(Slug(p[2]), 1, 5) = Lower(Prefix(last_name \o first_name, 5))
                /\ SubSeq(Slug(p[2]), 6, 7) = Lower(Prefix(first_name, 2))
                /\ AllDigits(SubSeq(Slug(p[2]), 8, 9))
                /\ Slug(construct_url_csv(work[1].player_name)) = SubSeq(Slug(p[2]), 1, 7) \o "01"

\* The page reduced to the one place that supplies the table of an id: the
\* live tree when a table of the id is in it, else the first comment, in
\* document order, with such a table in it, else nothing.
Supplier(doc, id) ==
    LET holds == {c \in 1..Len(doc.comments) :
                     \E t \in 1..Len(doc.comments[c]) : doc.comments[c][t].id = id}
    IN  IF \E t \in 1..Len(doc.live) : doc.live[t].id = id THEN Page(doc.live, <<>>)
        ELSE IF holds = {} THEN Page(<<>>, <<>>)
        ELSE Page(doc.comments[CHOOSE c \in holds : \A d \in holds : c <= d], <<>>)

\* C25: the pass of the roster and of the schedule driver over a page that
\* was served takes the state where the pass over the one place that
\* supplies the table takes it: the live tree if the table is there, else
\* the first comment that holds it; a page with the table in neither leaves
\* the item skipped and every table as it was.
SearchOrder ==
    [][/\ Running("roster") =>
              \A doc \in RosterDocs(work[idx]) :
                  (doc.ok /\ RosterTeam(doc)) =>
                      /\ RosterTeam(Supplier(doc, "roster"))
                      /\ Supplier(doc, "roster") = Page(<<>>, <<>>) => Skipped
       /\ Running("schedule") =>
              \A doc \in ScheduleDocs(work[idx]) :
                  (doc.ok /\ ScheduleMonth(doc)) =>
                      /\ ScheduleMonth(Supplier(doc, "schedule"))
                      /\ Supplier(doc, "schedule") = Page(<<>>, <<>>) => Skipped]_vars

\* C25: the page with the month's schedule in its first comment and another
\* schedule in its second gave the games of the first, and the page with a
\* roster in the live tree and another in a comment gave the live one.
FirstPlaceSupplied ==
    \/ /\ driver = "schedule"
       /\ fetched = <<>>
       /\ idx = 3
       /\ outcome = <<Entry(YearMonth(2), "ok", "stored", "Inserted new games", 2)>>
       /\ Len(gamelogs) = 2
    \/ /\ driver = "roster"
       /\ idx = 3
       /\ outcome = <<Entry(TEAM_ABBRS[2], "ok", "stored", "", 0)>>
       /\ Len(players) = 1
       /\ players[1].name = "Alan Smith"

\* C26: a box-score script starts with the links of the stored games, each
\* once and none of them NULL or empty, passes over them one by one with a
\* request to each, and in every state every stored basic or advanced line
\* has the link of a stored game.
LinksFromGameLog ==
    /\ [](/\ \A i \in 1..Len(box_scores) :
                \E g \in 1..Len(gamelogs) :
                    gamelogs[g].box_score_link = box_scores[i].box_score_link
          /\ \A i \in 1..Len(adv_box_scores) :
                \E g \in 1..Len(gamelogs) :
                    gamelogs[g].box_score_link = adv_box_scores[i].box_score_link)
    /\ [][/\ (\E d \in {"basic", "advanced"} : \E rp \in BOOLEAN : BoxStart(d, rp))
                 => /\ {work'[k] : k \in 1..Len(work')}
                           = {gamelogs[g].box_score_link : g \in 1..Len(gamelogs)} \ {NULL, ""}
                    /\ \A j, k \in 1..Len(work') : work'[j] = work'[k] => j = k
          /\ (BoxItem \/ AdvancedItem)
                 => /\ outcome'[1].item = work[idx]
                    /\ outcome'[1].fetch /= "none"
                    /\ idx' = idx + 1
                    /\ work' = work]_vars

\* C26: a basic run is done that had two links to pass, the game table
\* holding two games of one of them, and a line of the first link is stored.
SharedLinkFetchedOnce ==
    /\ driver = "basic"
    /\ status = "done"
    /\ Len(work) = 2
    /\ \E g, h \in 1..Len(gamelogs) :
           g /= h /\ gamelogs[g].box_score_link = gamelogs[h].box_score_link
                  /\ gamelogs[g].box_score_link /= NULL
    /\ \E i \in 1..Len(box_scores) : box_scores[i].box_score_link = work[1]

\* C27: remove_duplicates leaves no two players with the same nine key
\* values (NULL equal to NULL), leaves of each key the row of the smallest
\* id and no other, each as it was and in the order they had, and run again
\* right after, deletes nothing.
DuplicatesRemoved ==
    [][remove_duplicates =>
          /\ \A i, j \in 1..Len(players') : i /= j => Key(players'[i]) /= Key(players'[j])
          /\ \A i \in 1..Len(players) :
                 (\E j \in 1..Len(players') : players'[j] = players[i])
                     <=> \A k \in 1..Len(players) :
                             Key(players[k]) = Key(players[i]) => players[i].id <= players[k].id
          /\ \A j \in 1..Len(players') : \E i \in 1..Len(players) : players[i] = players'[j]
          /\ \A i, j \in 1..Len(players') : i < j => players'[i].id < players'[j].id
          /\ {outcome'[k].item : k \in 1..Len(outcome')}
                 = {players[i].id : i \in 1..Len(players)}
                       \ {players'[j].id : j \in 1..Len(players')}
          /\ driver = "dedup" => (players' = players /\ outcome' = <<>>)]_vars

\* C27: remove_duplicates deleted the second of two rows of one key and
\* left the first next to a row of another key.
SecondOfKeyDeleted ==
    /\ driver = "dedup"
    /\ Len(outcome) = 1
    /\ \E i, j \in 1..Len(players) :
           /\ players[i].id < outcome[1].item
           /\ players[i].name = "Al Smith"
           /\ players[j].name = "Alan Smith"

\* The four columns the roster loop of data-base-creator.py compares.
PartialKey(r) == <<r.name, r.height, r.college, r.experience>>

\* C28: after any runs of the roster script of data-base-creator.py no two
\* stored players have the same (name, height, college, experience), and
\* a pass that stores rows stores none whose four values a row already had.
PartialKeysDistinct ==
    /\ [](family = "partial" =>
              \A i, j \in 1..Len(players) :
                  i /= j => PartialKey(players[i]) /= PartialKey(players[j]))
    /\ [][PartialItem =>
              \A r \in Added(players, players') : \A i \in 1..Len(players) :
                  PartialKey(players[i]) /= PartialKey(r)]_vars

\* The places, in document order, of the body rows of a table that may be a
\* latest season: not a repeated header row, with a cell, and with neither
\* "career" nor "playoffs" in the first one, whatever the case.
SeasonRowsAt(tbody) ==
    {j \in 1..Len(tbody) :
        /\ tbody[j].class /= {"thead"}
        /\ tbody[j].cells /= <<>>
        /\ ~Contains(Lower(tbody[j].cells[1].text), "career")
        /\ ~Contains(Lower(tbody[j].cells[1].text), "playoffs")}

StatUpdateScope ==
    [][StatsItem =>
          /\ Len(players') = Len(players)
          /\ \A i \in 1..Len(players) :
                 /\ players[i].url /= work[idx] => players'[i] = players[i]
                 /\ players'[i] = [players[i] EXCEPT !.season = players'[i].season,
                                                     !.stats = players'[i].stats]
          /\ UNCHANGED <<gamelogs, box_scores, adv_box_scores, sqlite_sequence>>]_vars

\* C30: a stats run passed its first player by and stored the season of its
\* second, Alan Smith, who is the player he was with a season and values;
\* the first player has his url and no season.
OnlyThatPlayerUpdated ==
    /\ driver = "stats"
    /\ Len(players) = 2
    /\ outcome = <<Entry(players[2].url, "ok", "stored", "Stats updated", 0)>>
    /\ players[2].name = "Alan Smith"
    /\ players[2].team = TEAM_ABBRS[2]
    /\ players[2].season = "2024-25"
    /\ players[2].stats /= NoStats
    /\ players[1].url /= NULL
    /\ players[1].url /= players[2].url
    /\ players[1].season = NULL
    /\ players[1].stats = NoStats
====
